---- MODULE Spec2Model ----
(***************************************************************************)
(* Verification model of the quant-lab backtest engine.                    *)
(*                                                                         *)
(* Two implementations of the per-candle trade state machine live in the   *)
(* repository and both are modelled:                                       *)
(*   impl = "engine"  : the monolithic loop of core/engine.py run_backtest *)
(*   impl = "modular" : the helpers of core/state.py, core/exits.py and    *)
(*                      core/sizing.py, called in the order of the loop.   *)
(*                                                                         *)
(* Decimal arithmetic is modelled as fixed point: fractions (percentages,  *)
(* reward multiples) and amounts (capital, position size, PnL) are         *)
(* integers in units of 1/Scale; candle prices are whole numbers; a value  *)
(* called "scaled price" is a price times Scale.  Division truncates.      *)
(***************************************************************************)
EXTENDS Integers, Sequences, FiniteSets, TLC

VARIABLES run, pc, i, row, current_strategy, cfg, stop_loss_pct,
          take_profit_pct, state, entry_log,
          df, hyst,
          registry, sweeps, probes,
          call

vars == <<run, pc, i, row, current_strategy, cfg, stop_loss_pct,
          take_profit_pct, state, entry_log, df, hyst, registry, sweeps,
          probes, call>>

\* the locals of a backtest run
engine_vars == <<run, pc, i, row, current_strategy, cfg, stop_loss_pct,
                 take_profit_pct, state, entry_log>>

\* the data frame and the locals of the regime classifier's hysteresis pass
classifier_vars == <<df, hyst>>

\* the strategy registry, the parameter sweeps in progress and the
\* configurations read by the runs made outside of a sweep
sweep_vars == <<registry, sweeps, probes>>

\* one call of a function checked on its own: its arguments, its position
\* and its result
sizing_vars == <<call>>

\* what a backtest run does not touch
aux_vars == <<df, hyst, registry, sweeps, probes, call>>

----------------------------------------------------------------------------
(* Bounds *)

\* number of candles processed by the loop (len(df) - 1 at most)
MaxBars == 3

\* number of changes of the regime label along the candle series
MaxRegimeFlips == 1

----------------------------------------------------------------------------
(* Numeric representation and program constants *)

Scale == 10000

STARTING_CAPITAL == 1000000

FEE_PCT == 10

REGIME_MIN_DURATION == 5

STRATEGY_TRENDING_UP == "trending_up"

STRATEGY_TRENDING_DOWN == "trending_down"

STRATEGY_RANGING == "ranging"

Regimes == {STRATEGY_TRENDING_UP, STRATEGY_TRENDING_DOWN, STRATEGY_RANGING}

NoneVal == "None"

Abs(x) == IF x < 0 THEN -x ELSE x

Max(a, b) == IF a >= b THEN a ELSE b

Min(a, b) == IF a <= b THEN a ELSE b

\* a * f / Scale for an amount a and a fraction f, without leaving 32 bits
MulFrac(a, f) == (a * (f \div 100)) \div 100 + (a * (f % 100)) \div Scale

\* dict helpers (Python dict.copy() followed by a store / pop)
Has(d, k) == k \in DOMAIN d

Put(d, k, v) == [x \in (DOMAIN d) \cup {k} |-> IF x = k THEN v ELSE d[x]]

Pop(d, k) == [x \in (DOMAIN d) \ {k} |-> d[x]]

Get(d, k, default) == IF k \in DOMAIN d THEN d[k] ELSE default

----------------------------------------------------------------------------
(* Condition evaluator: core/conditions.py *)

invert_condition(cond) ==
    LET t == Get(cond, "type", NoneVal) IN
    IF t = "rsi" THEN
        IF Has(cond, "below") THEN Pop(Put(cond, "above", 100 - cond.below), "below")
        ELSE IF Has(cond, "above") THEN Pop(Put(cond, "below", 100 - cond.above), "above")
        ELSE cond
    ELSE IF t \in {"macd_cross", "ema_cross", "stochastic_cross"} THEN
        IF Get(cond, "direction", NoneVal) \in {"up", "down"}
        THEN Put(cond, "direction", IF cond.direction = "up" THEN "down" ELSE "up")
        ELSE cond
    ELSE IF t = "price_above_ema" THEN Put(cond, "type", "price_below_ema")
    ELSE IF t = "price_below_ema" THEN Put(cond, "type", "price_above_ema")
    ELSE IF t = "price_above_bb" THEN Put(cond, "type", "price_below_bb")
    ELSE IF t = "price_below_bb" THEN Put(cond, "type", "price_above_bb")
    ELSE IF t = "price_crosses_mid_bb" THEN Put(cond, "type", "price_crosses_mid_bb_down")
    ELSE IF t = "price_crosses_mid_bb_down" THEN Put(cond, "type", "price_crosses_mid_bb")
    ELSE IF t = "price_near_bb_lower" THEN Put(cond, "type", "price_near_bb_upper")
    ELSE IF t = "price_near_bb_upper" THEN Put(cond, "type", "price_near_bb_lower")
    ELSE IF t = "breakout_high" THEN Put(cond, "type", "breakout_low")
    ELSE IF t = "breakout_low" THEN Put(cond, "type", "breakout_high")
    ELSE IF t = "volatility_expansion" THEN Put(cond, "type", "range_contraction")
    ELSE IF t = "range_contraction" THEN Put(cond, "type", "volatility_expansion")
    ELSE IF t = "trend_pullback" THEN
        IF Get(cond, "direction", NoneVal) \in {"long", "short"}
        THEN Put(cond, "direction", IF cond.direction = "long" THEN "short" ELSE "long")
        ELSE cond
    ELSE cond

\* invert_condition of core/engine.py, the copy run_backtest calls: it reads
\* cond["type"] and cond["direction"] directly and ends at price_near_bb_lower
engine_invert_condition(cond) ==
    LET t == cond.type IN
    IF t = "rsi" THEN
        IF Has(cond, "below") THEN Pop(Put(cond, "above", 100 - cond.below), "below")
        ELSE IF Has(cond, "above") THEN Pop(Put(cond, "below", 100 - cond.above), "above")
        ELSE cond
    ELSE IF t \in {"macd_cross", "ema_cross", "stochastic_cross"}
    THEN Put(cond, "direction", IF cond.direction = "up" THEN "down" ELSE "up")
    ELSE IF t = "price_above_ema" THEN Put(cond, "type", "price_below_ema")
    ELSE IF t = "price_below_ema" THEN Put(cond, "type", "price_above_ema")
    ELSE IF t = "price_above_bb" THEN Put(cond, "type", "price_below_bb")
    ELSE IF t = "price_below_bb" THEN Put(cond, "type", "price_above_bb")
    ELSE IF t = "price_crosses_mid_bb" THEN Put(cond, "type", "price_crosses_mid_bb_down")
    ELSE IF t = "price_crosses_mid_bb_down" THEN Put(cond, "type", "price_crosses_mid_bb")
    ELSE IF t = "price_near_bb_lower" THEN Put(cond, "type", "price_near_bb_upper")
    ELSE cond

\* the sentinel "mode_threshold" of an adx condition, kept apart from every
\* numeric threshold
mode_threshold == 0 - 1

\* The candles of the model carry the rsi and adx columns; the branches of
\* the other condition types read columns a model candle does not have and
\* return False ("col not in row").
evaluate_condition(cond, r, adx_threshold) ==
    LET t == Get(cond, "type", NoneVal) IN
    IF t = "adx" THEN
        LET thresh0 == Get(cond, "above", adx_threshold)
            thresh == IF thresh0 = mode_threshold THEN adx_threshold ELSE thresh0
        IN IF Has(cond, "below") THEN r.adx < cond.below ELSE r.adx > thresh
    ELSE IF t = "rsi" THEN
        IF Has(cond, "below") THEN r.rsi < cond.below
        ELSE IF Has(cond, "above") THEN r.rsi > cond.above
        ELSE FALSE
    ELSE FALSE

\* all(evaluate_condition(c, ...) for c in conds)
AllHold(conds, r, adx_threshold) ==
    \A k \in 1..Len(conds) : evaluate_condition(conds[k], r, adx_threshold)

\* any(evaluate_condition(c, ...) for c in conds)
AnyHolds(conds, r, adx_threshold) ==
    \E k \in 1..Len(conds) : evaluate_condition(conds[k], r, adx_threshold)

\* [invert_condition(c) for c in conds]
InvertAll(conds) == [k \in 1..Len(conds) |-> invert_condition(conds[k])]

\* mutant: inv = cond, the puts and pops act on the caller's dict
ArgAfterInvert_alias(cond) == invert_condition(cond)

\* the dict passed to invert_condition, after the call: inv = cond.copy(),
\* and every put and pop that follows acts on inv
ArgAfterInvert(cond) == cond

\* the list after all(evaluate_condition(invert_condition(c), ...) for c in
\* conds): the generator stops at the first inverted condition that fails
ArgsAfterAll(conds, r, adx_threshold) ==
    [ k \in 1..Len(conds) |->
        IF \A j \in 1..(k - 1) : evaluate_condition(invert_condition(conds[j]), r, adx_threshold)
        THEN ArgAfterInvert(conds[k])
        ELSE conds[k] ]

\* the list after [invert_condition(c) for c in conds]
ArgsAfterInvertAll(conds) == [k \in 1..Len(conds) |-> ArgAfterInvert(conds[k])]

----------------------------------------------------------------------------
(* Configuration values and the strategy registry: core/strategy_loader.py *)

\* JSON values as the engine reads them: a number, a "12%" string, an
\* unparsable string, or an explicit null
Num(v) == [kind |-> "num", v |-> v]

Pct(v) == [kind |-> "pct", v |-> v]

BadStr == [kind |-> "bad"]

Null == [kind |-> "none"]

\* _safe_decimal(value, name, default): default is already a fraction
safe_decimal(value, default) ==
    IF value.kind = "num" THEN value.v
    ELSE IF value.kind = "pct" THEN (value.v * Scale) \div 100
    ELSE default

rsi_below_30 == [type |-> "rsi", below |-> 30]

rsi_above_70 == [type |-> "rsi", above |-> 70]

adx_above_mode == [type |-> "adx", above |-> mode_threshold]

\* the process-wide registry _STRATEGIES, keyed by file stem
_STRATEGIES ==
    [ trend_macd |->
        [ name |-> "Trend MACD", direction |-> "long",
          entry |-> [conditions |-> <<rsi_above_70, adx_above_mode>>],
          exit |-> [ stop_loss |-> Num(1000), trailing_stop |-> Num(500),
                     signal_exit |-> <<rsi_below_30>> ],
          risk |-> [sizing |-> "atr", atr_multiplier |-> Num(Scale)] ],
      range_rsi_bb |->
        [ name |-> "Range RSI BB", direction |-> "both",
          entry |-> [conditions |-> <<rsi_below_30>>],
          exit |-> [ stop_loss |-> Num(2000), take_profit |-> Num(3000),
                     partial_exit |-> Pct(50),
                     signal_exit |-> <<rsi_above_70>> ],
          risk |-> [sizing |-> "fixed_usd", max_exposure_usd |-> Num(100 * Scale)] ],
      short_rsi |->
        [ name |-> "Short RSI", direction |-> "short",
          entry |-> [conditions |-> <<rsi_below_30>>],
          exit |-> [ stop_loss |-> Num(1000), trailing_stop |-> Num(400),
                     partial_exit |-> Null,
                     signal_exit |-> <<rsi_above_70>> ],
          risk |-> [sizing |-> "equity_pct"] ],
      scale_out |->
        [ name |-> "Scale Out", direction |-> "long",
          entry |-> [conditions |-> <<rsi_below_30>>],
          exit |-> [ stop_loss |-> Num(1000), partial_exit |-> Num(15000) ],
          risk |-> [sizing |-> "fixed_usd", max_exposure_usd |-> Num(50 * Scale)] ] ]

StrategyKeys == DOMAIN _STRATEGIES

\* get_strategy(name): the registry entry; an unknown key raises ValueError
get_strategy(name) == _STRATEGIES[name]

----------------------------------------------------------------------------
(* Regime router: core/regime_router.py *)

DEFAULT_REGIME_TO_STRATEGY ==
    [r \in Regimes |-> IF r = STRATEGY_RANGING THEN "range_rsi_bb" ELSE "trend_macd"]

\* the strategy_mappings argument: None, or a regime -> key table
NoMappings == [given |-> FALSE]

Mappings(table) == [given |-> TRUE, table |-> table]

\* mutant: a regime missing from the supplied table is looked up in the
\* default table
MappedName_fallback(regime, mappings) ==
    IF mappings.given /\ Has(mappings.table, regime) THEN mappings.table[regime]
    ELSE DEFAULT_REGIME_TO_STRATEGY[regime]

\* mappings.get(regime) after the None -> default substitution; NoneVal when
\* the regime has no entry
MappedName(regime, mappings) ==
    LET m == IF ~mappings.given THEN DEFAULT_REGIME_TO_STRATEGY ELSE mappings.table
    IN Get(m, regime, NoneVal)

\* get_active_strategy raises ValueError when the lookup is empty (None or
\* an empty name)
RouterRaises(regime, mappings) == MappedName(regime, mappings) \in {NoneVal, ""}

get_active_strategy(regime, mappings) == get_strategy(MappedName(regime, mappings))

----------------------------------------------------------------------------
(* Mode parameters: core/engine.py, core/sizing.py *)

get_mode_params(mode) ==
    IF mode = "conservative"
    THEN [risk_per_trade_frac |-> 200, fixed_rr |-> 4 * Scale, adx_threshold |-> 40]
    ELSE IF mode = "aggressive"
    THEN [risk_per_trade_frac |-> 400, fixed_rr |-> 4 * Scale, adx_threshold |-> 25]
    ELSE [risk_per_trade_frac |-> 100, fixed_rr |-> (3 * Scale) \div 2, adx_threshold |-> 30]

\* the locals run_backtest derives from the active strategy
StrategyLocals(strat) ==
    [ entry_conditions |-> strat.entry.conditions,
      signal_exit |-> Get(strat.exit, "signal_exit", <<>>),
      stop_loss_pct_cfg |-> safe_decimal(Get(strat.exit, "stop_loss", Num(300)), 300),
      take_profit_pct_cfg |-> safe_decimal(Get(strat.exit, "take_profit", Num(1800)), 1800),
      partial_exit_pct |-> safe_decimal(Get(strat.exit, "partial_exit", Num(0)), 0),
      trailing_stop_pct |-> safe_decimal(Get(strat.exit, "trailing_stop", Num(0)), 0),
      sizing |-> strat.risk.sizing,
      max_exposure_usd |-> safe_decimal(Get(strat.risk, "max_exposure_usd", Num(100 * Scale)), 100 * Scale),
      atr_multiplier |-> safe_decimal(Get(strat.risk, "atr_multiplier", Num(Scale)), Scale) ]

----------------------------------------------------------------------------
(* Candles *)

Closes == {80, 100, 120}

RsiVals == {20, 50, 80}

Wicks == {"none", "up", "down"}

\* One candle of the enriched series.  An up wick puts the high at 1.5 times
\* the close and a down wick puts the low at half the close; adx is above
\* every mode threshold on a trending candle and below on a ranging one; atr
\* is zero (a flat series) on a trending_down candle and 2 elsewhere.
Candle(close, wick, rsi, regime) ==
    [ close |-> close,
      high |-> IF wick = "up" THEN close + close \div 2 ELSE close,
      low |-> IF wick = "down" THEN close \div 2 ELSE close,
      rsi |-> rsi,
      adx |-> IF regime = STRATEGY_RANGING THEN 20 ELSE 45,
      atr |-> IF regime = STRATEGY_TRENDING_DOWN THEN 0 ELSE 2,
      trending_up |-> regime = STRATEGY_TRENDING_UP,
      trending_down |-> regime = STRATEGY_TRENDING_DOWN,
      regime |-> regime ]

Candles ==
    { Candle(c, w, r, g) : c \in Closes, w \in Wicks, r \in RsiVals, g \in Regimes }

\* the candles a run is fed: a wick comes with a neutral rsi at the middle
\* close, and a flat (trending_down) candle sits at the middle close
CandleShapes ==
    { c \in Candles :
        /\ c.high # c.close \/ c.low # c.close => c.rsi = 50 /\ c.close = 100
        /\ c.trending_down => c.close = 100 }

\* the regime label the run loop derives from the flags of a row
CurrentRegime(r) ==
    IF r.trending_up THEN STRATEGY_TRENDING_UP
    ELSE IF r.trending_down THEN STRATEGY_TRENDING_DOWN
    ELSE STRATEGY_RANGING

----------------------------------------------------------------------------
(* Backtest state: core/state.py *)

MIN_POSITION_SIZE == 10

init_backtest_state(starting_capital) ==
    [ capital |-> starting_capital,
      position |-> 0,
      entry_price |-> 0,
      entry_ts |-> 0,
      entry_regime |-> "",
      initial_exposure |-> 0,
      stop_price |-> 0,
      high_water |-> 0,
      low_water |-> 0,
      trailing_active |-> FALSE,
      entry_stop_price |-> 0,
      entry_take_profit_pct |-> 0,
      equity |-> <<starting_capital>>,
      trades |-> <<>>,
      regime_pnl |-> [r \in Regimes |-> 0],
      regime_changes |-> 0,
      regime_counts |-> [r \in Regimes |-> 0],
      prev_regime |-> NoneVal ]

\* mutant: the candle on which the regime changes is not counted
update_regime_for_bar_skip(s, current_regime) ==
    IF current_regime # s.prev_regime
    THEN [s EXCEPT !.regime_changes = IF s.prev_regime # NoneVal THEN @ + 1 ELSE @,
                   !.prev_regime = current_regime]
    ELSE [s EXCEPT !.regime_counts[current_regime] = @ + 1]

update_regime_for_bar(s, current_regime) ==
    LET s1 == IF current_regime # s.prev_regime
              THEN [s EXCEPT !.regime_changes = IF s.prev_regime # NoneVal THEN @ + 1 ELSE @,
                             !.prev_regime = current_regime]
              ELSE s
    IN [s1 EXCEPT !.regime_counts[current_regime] = @ + 1]

\* regime tracking of the monolithic loop
EngineRegimeTracking(s, current_regime) ==
    LET s1 == IF current_regime # s.prev_regime
              THEN [s EXCEPT !.regime_changes = IF s.prev_regime # NoneVal THEN @ + 1 ELSE @,
                             !.prev_regime = current_regime]
              ELSE s
    IN IF current_regime = STRATEGY_TRENDING_UP
       THEN [s1 EXCEPT !.regime_counts[STRATEGY_TRENDING_UP] = @ + 1]
       ELSE IF current_regime = STRATEGY_TRENDING_DOWN
       THEN [s1 EXCEPT !.regime_counts[STRATEGY_TRENDING_DOWN] = @ + 1]
       ELSE [s1 EXCEPT !.regime_counts[STRATEGY_RANGING] = @ + 1]

update_position_tracking_for_bar(s, high, low) ==
    IF s.position = 0 THEN s
    ELSE IF s.position > 0
    THEN [s EXCEPT !.high_water = Max(s.high_water, high),
                   !.low_water = Min(s.low_water, low)]
    ELSE [s EXCEPT !.high_water = Min(s.high_water, high),
                   !.low_water = Max(s.low_water, low)]

\* position tracking of the monolithic loop
EnginePositionTracking(s, high, low) ==
    IF s.position # 0
    THEN IF s.position > 0
         THEN [s EXCEPT !.high_water = Max(s.high_water, high),
                        !.low_water = Min(s.low_water, low)]
         ELSE [s EXCEPT !.high_water = Min(s.high_water, high),
                        !.low_water = Max(s.low_water, low)]
    ELSE s

----------------------------------------------------------------------------
(* Position sizer: core/sizing.py *)

\* mutant: the stop distance of equity_pct sizing does not give up the fee
compute_position_and_stops_nofee(capital, price, position_frac, risk_per_trade_frac, fixed_rr, sizing, stop_loss_pct_cfg, take_profit_pct_cfg, max_exposure_usd, fee_pct) ==
    IF sizing = "equity_pct" THEN
        LET notional == MulFrac(capital, position_frac)
            position_size == IF notional <= 0 \/ price <= 0 THEN 0 ELSE notional \div price
            raw_stop == IF notional > 0
                        THEN (risk_per_trade_frac * Scale) \div position_frac
                        ELSE 0
            sl == IF notional > 0 /\ raw_stop > 0 THEN raw_stop ELSE stop_loss_pct_cfg
        IN [ position_size |-> position_size, stop_loss_pct |-> sl,
             take_profit_pct |-> MulFrac(sl, fixed_rr) ]
    ELSE
        [ position_size |-> IF price > 0 THEN max_exposure_usd \div price ELSE 0,
          stop_loss_pct |-> stop_loss_pct_cfg,
          take_profit_pct |-> MulFrac(stop_loss_pct_cfg, fixed_rr) ]

compute_position_and_stops(capital, price, position_frac, risk_per_trade_frac, fixed_rr, sizing, stop_loss_pct_cfg, take_profit_pct_cfg, max_exposure_usd, fee_pct) ==
    IF sizing = "equity_pct" THEN
        LET notional == MulFrac(capital, position_frac)
            position_size == IF notional <= 0 \/ price <= 0 THEN 0 ELSE notional \div price
            raw_stop == IF notional > 0
                        THEN (risk_per_trade_frac * Scale) \div position_frac - fee_pct
                        ELSE 0
            sl == IF notional > 0 /\ raw_stop > 0 THEN raw_stop ELSE stop_loss_pct_cfg
        IN [ position_size |-> position_size, stop_loss_pct |-> sl,
             take_profit_pct |-> MulFrac(sl, fixed_rr) ]
    ELSE
        [ position_size |-> IF price > 0 THEN max_exposure_usd \div price ELSE 0,
          stop_loss_pct |-> stop_loss_pct_cfg,
          take_profit_pct |-> MulFrac(stop_loss_pct_cfg, fixed_rr) ]

----------------------------------------------------------------------------
(* Trade records and exits: core/exits.py *)

build_trade(entry_ts, exit_ts_raw, entry_price, exit_price, close_amount, pnl, entry_regime, strategy_name, exit_reason, is_long, high_water, low_water) ==
    [ entry_ts |-> entry_ts,
      exit_ts |-> exit_ts_raw,
      entry_price |-> entry_price,
      exit_price |-> exit_price,
      position |-> IF is_long THEN close_amount ELSE -close_amount,
      pnl |-> pnl,
      regime |-> entry_regime,
      strategy |-> strategy_name,
      exit_reason |-> exit_reason,
      mae |-> IF entry_price = 0 THEN 0
              ELSE IF is_long THEN ((low_water - entry_price) * 100 * Scale) \div entry_price
              ELSE ((entry_price - high_water) * 100 * Scale) \div entry_price,
      mfe |-> IF entry_price = 0 THEN 0
              ELSE IF is_long THEN ((high_water - entry_price) * 100 * Scale) \div entry_price
              ELSE ((entry_price - low_water) * 100 * Scale) \div entry_price,
      trade_type |-> IF is_long THEN "long" ELSE "short" ]

\* mutant: a close charges no fee
_compute_pnl_nofee(is_long, entry_price, price, close_amount, fee_pct) ==
    IF is_long THEN (price - entry_price) * close_amount
    ELSE (entry_price - price) * close_amount

_compute_pnl(is_long, entry_price, price, close_amount, fee_pct) ==
    LET fee == MulFrac(close_amount * price, fee_pct)
    IN IF is_long THEN (price - entry_price) * close_amount - fee
       ELSE (entry_price - price) * close_amount - fee

\* mutant: the pnl of a close goes to the bucket of the exit candle's regime
BookClose_exitregime(s, r, price, close_amount, is_long, exit_reason, strategy_name, fee_pct) ==
    LET pnl == _compute_pnl(is_long, s.entry_price, price, close_amount, fee_pct)
        trade == build_trade(s.entry_ts, r.timestamp, s.entry_price, price,
                             close_amount, pnl, s.entry_regime, strategy_name,
                             exit_reason, is_long, s.high_water, s.low_water)
    IN [s EXCEPT !.capital = @ + pnl,
                 !.trades = Append(@, trade),
                 !.regime_pnl[r.regime] = @ + pnl,
                 !.equity = Append(@, s.capital + pnl)]

\* the bookkeeping every close performs: capital, TradeLog, regime bucket and
\* capital trajectory; the caller sets the position
\* mutant: a close rewrites the head of the capital trajectory
BookClose_rebase(s, r, price, close_amount, is_long, exit_reason, strategy_name, fee_pct) ==
    LET pnl == _compute_pnl(is_long, s.entry_price, price, close_amount, fee_pct)
        trade == build_trade(s.entry_ts, r.timestamp, s.entry_price, price,
                             close_amount, pnl, s.entry_regime, strategy_name,
                             exit_reason, is_long, s.high_water, s.low_water)
    IN [s EXCEPT !.capital = @ + pnl,
                 !.trades = Append(@, trade),
                 !.regime_pnl[s.entry_regime] = @ + pnl,
                 !.equity = Append(<<s.capital + pnl>> \o Tail(@), s.capital + pnl)]

BookClose(s, r, price, close_amount, is_long, exit_reason, strategy_name, fee_pct) ==
    LET pnl == _compute_pnl(is_long, s.entry_price, price, close_amount, fee_pct)
        trade == build_trade(s.entry_ts, r.timestamp, s.entry_price, price,
                             close_amount, pnl, s.entry_regime, strategy_name,
                             exit_reason, is_long, s.high_water, s.low_water)
    IN [s EXCEPT !.capital = @ + pnl,
                 !.trades = Append(@, trade),
                 !.regime_pnl[s.entry_regime] = @ + pnl,
                 !.equity = Append(@, s.capital + pnl)]

\* take-profit test of handle_exits_for_bar: a zero percentage disables it
TakeProfitHit(is_long, price, entry_price, entry_take_profit_pct) ==
    /\ entry_take_profit_pct # 0
    /\ \/ is_long /\ price * Scale >= entry_price * (Scale + entry_take_profit_pct)
       \/ ~is_long /\ price * Scale <= entry_price * (Scale - entry_take_profit_pct)

\* mutant: a take-profit always closes half of the position
TakeProfitAmount_half(position, partial_exit_pct) ==
    MulFrac(Abs(position), Scale \div 2)

\* mutant: a take-profit closes the whole position
TakeProfitAmount_all(position, partial_exit_pct) ==
    Abs(position)

\* amount closed by a take-profit
TakeProfitAmount(position, partial_exit_pct) ==
    IF partial_exit_pct > 0 THEN MulFrac(Abs(position), partial_exit_pct)
    ELSE Abs(position)

\* mutant: the comparisons of the stop-loss test are exchanged
StopLossHit_flipped(is_long, price, stop_price) ==
    \/ is_long /\ price * Scale >= stop_price
    \/ ~is_long /\ price * Scale <= stop_price

\* stop-loss test against the stop price (a scaled price)
StopLossHit(is_long, price, stop_price) ==
    \/ is_long /\ price * Scale <= stop_price
    \/ ~is_long /\ price * Scale >= stop_price

\* mutant: the ratchet takes the new level without comparing it with the
\* stop in force
TrailingStop_loose(is_long, stop_price, high_water, low_water, trailing_stop_pct) ==
    IF is_long THEN high_water * (Scale - trailing_stop_pct)
    ELSE low_water * (Scale + trailing_stop_pct)

\* trailing ratchet: the new stop price
TrailingStop(is_long, stop_price, high_water, low_water, trailing_stop_pct) ==
    IF is_long THEN Max(stop_price, high_water * (Scale - trailing_stop_pct))
    ELSE Min(stop_price, low_water * (Scale + trailing_stop_pct))

\* signal-exit test: raw conditions, and for a short also the inverted ones
SignalExitMet(is_long, signal_exit, r, adx_threshold) ==
    \/ AnyHolds(signal_exit, r, adx_threshold)
    \/ ~is_long /\ AnyHolds(InvertAll(signal_exit), r, adx_threshold)

handle_exits_for_bar(s, r, strat, signal_exit, trailing_stop_pct, fee_pct, adx_threshold, partial_exit_pct) ==
    IF s.position = 0 THEN s
    ELSE
    LET price == r.close
        is_long0 == s.position > 0
        tp_hit == TakeProfitHit(is_long0, price, s.entry_price, s.entry_take_profit_pct)
        tp_amount == TakeProfitAmount(s.position, partial_exit_pct)
        s1 == IF tp_hit
              THEN [BookClose(s, r, price, tp_amount, is_long0, "take_profit", strat.name, fee_pct)
                      EXCEPT !.position = IF is_long0 THEN @ - tp_amount ELSE @ + tp_amount]
              ELSE s
    IN IF tp_hit /\ s1.position = 0 THEN s1
       ELSE
       LET is_long == s1.position > 0
       IN IF StopLossHit(is_long, price, s1.stop_price)
          THEN [BookClose(s1, r, price, Abs(s1.position), is_long, "stop_loss", strat.name, fee_pct)
                  EXCEPT !.position = 0]
          ELSE
          LET s2 == IF s1.trailing_active
                    THEN [s1 EXCEPT !.stop_price = TrailingStop(is_long, s1.stop_price,
                                        s1.high_water, s1.low_water, trailing_stop_pct)]
                    ELSE s1
          IN IF SignalExitMet(is_long, signal_exit, r, adx_threshold)
             THEN [BookClose(s2, r, price, Abs(s2.position), is_long, "signal_exit", strat.name, fee_pct)
                     EXCEPT !.position = 0]
             ELSE s2

\* mutant: the final close books the trade but leaves the position open
close_at_end_of_data_open(s, last_row, strat, fee_pct) ==
    IF s.position = 0 THEN s
    ELSE BookClose(s, last_row, last_row.close, Abs(s.position), s.position > 0,
                   "end_of_simulation", strat.name, fee_pct)

close_at_end_of_data(s, last_row, strat, fee_pct) ==
    IF s.position = 0 THEN s
    ELSE [BookClose(s, last_row, last_row.close, Abs(s.position), s.position > 0,
                    "end_of_simulation", strat.name, fee_pct)
            EXCEPT !.position = 0]

----------------------------------------------------------------------------
(* Entries: core/state.py *)

\* mutant: direction=both looks at the raw set only
EntryMet_rawonly(direction, entry_conditions, r, adx_threshold) ==
    IF direction = "short"
    THEN AllHold(InvertAll(entry_conditions), r, adx_threshold)
    ELSE AllHold(entry_conditions, r, adx_threshold)

\* entry decision of maybe_open_position
EntryMet(direction, entry_conditions, r, adx_threshold) ==
    LET long_entry == AllHold(entry_conditions, r, adx_threshold)
        short_entry == /\ direction \in {"short", "both"}
                       /\ AllHold(InvertAll(entry_conditions), r, adx_threshold)
    IN IF direction = "long" THEN long_entry
       ELSE IF direction = "short" THEN short_entry
       ELSE long_entry \/ short_entry

\* side of the position an entry opens
EntryIsLong(direction) == direction # "short"

\* side of the position an entry of the monolithic loop opens
EngineEntryIsLong(direction) == direction \in {"long", "both"}

\* mutant: an entry does not extend the capital trajectory
OpenPosition_silent(s, r, current_regime, is_long, position_size, sl_pct, tp_pct, trailing_stop_pct) ==
    LET size == IF position_size <= 0 THEN MIN_POSITION_SIZE ELSE position_size
        price == r.close
        stop == IF is_long THEN price * (Scale - sl_pct) ELSE price * (Scale + sl_pct)
    IN [s EXCEPT !.position = IF is_long THEN size ELSE -size,
                 !.entry_price = price,
                 !.entry_ts = r.timestamp,
                 !.entry_regime = current_regime,
                 !.initial_exposure = size * price,
                 !.stop_price = stop,
                 !.high_water = price,
                 !.low_water = price,
                 !.trailing_active = trailing_stop_pct > 0,
                 !.entry_stop_price = stop,
                 !.entry_take_profit_pct = tp_pct]

\* the assignments of an entry, shared by both implementations
\* mutant: the size the sizer returned is taken as it is
OpenPosition_nofloor(s, r, current_regime, is_long, position_size, sl_pct, tp_pct, trailing_stop_pct) ==
    LET size == position_size
        price == r.close
        stop == IF is_long THEN price * (Scale - sl_pct) ELSE price * (Scale + sl_pct)
    IN [s EXCEPT !.position = IF is_long THEN size ELSE -size,
                 !.entry_price = price,
                 !.entry_ts = r.timestamp,
                 !.entry_regime = current_regime,
                 !.initial_exposure = size * price,
                 !.stop_price = stop,
                 !.high_water = price,
                 !.low_water = price,
                 !.trailing_active = trailing_stop_pct > 0,
                 !.entry_stop_price = stop,
                 !.entry_take_profit_pct = tp_pct,
                 !.equity = Append(@, s.capital)]

OpenPosition(s, r, current_regime, is_long, position_size, sl_pct, tp_pct, trailing_stop_pct) ==
    LET size == IF position_size <= 0 THEN MIN_POSITION_SIZE ELSE position_size
        price == r.close
        stop == IF is_long THEN price * (Scale - sl_pct) ELSE price * (Scale + sl_pct)
    IN [s EXCEPT !.position = IF is_long THEN size ELSE -size,
                 !.entry_price = price,
                 !.entry_ts = r.timestamp,
                 !.entry_regime = current_regime,
                 !.initial_exposure = size * price,
                 !.stop_price = stop,
                 !.high_water = price,
                 !.low_water = price,
                 !.trailing_active = trailing_stop_pct > 0,
                 !.entry_stop_price = stop,
                 !.entry_take_profit_pct = tp_pct,
                 !.equity = Append(@, s.capital)]

\* the part of maybe_open_position after the flat test: entry decision,
\* sizing and the assignments
OpenIfMet(s, r, strat, current_regime, adx_threshold, sizing, position_frac, risk_per_trade_frac, fixed_rr, stop_loss_pct_cfg, take_profit_pct_cfg, max_exposure_usd, trailing_stop_pct, fee_pct) ==
    IF ~EntryMet(strat.direction, strat.entry.conditions, r, adx_threshold) THEN s
    ELSE
    LET sized == compute_position_and_stops(s.capital, r.close, position_frac,
                     risk_per_trade_frac, fixed_rr, sizing, stop_loss_pct_cfg,
                     take_profit_pct_cfg, max_exposure_usd, fee_pct)
    IN OpenPosition(s, r, current_regime, EntryIsLong(strat.direction),
                    sized.position_size, sized.stop_loss_pct,
                    sized.take_profit_pct, trailing_stop_pct)

\* mutant: the entry is attempted whatever the position is
maybe_open_position_reentrant(s, r, strat, current_regime, adx_threshold, sizing, position_frac, risk_per_trade_frac, fixed_rr, stop_loss_pct_cfg, take_profit_pct_cfg, max_exposure_usd, trailing_stop_pct, fee_pct) ==
    OpenIfMet(s, r, strat, current_regime, adx_threshold, sizing,
              position_frac, risk_per_trade_frac, fixed_rr, stop_loss_pct_cfg,
              take_profit_pct_cfg, max_exposure_usd, trailing_stop_pct, fee_pct)

maybe_open_position(s, r, strat, current_regime, adx_threshold, sizing, position_frac, risk_per_trade_frac, fixed_rr, stop_loss_pct_cfg, take_profit_pct_cfg, max_exposure_usd, trailing_stop_pct, fee_pct) ==
    IF s.position # 0 THEN s
    ELSE OpenIfMet(s, r, strat, current_regime, adx_threshold, sizing,
                   position_frac, risk_per_trade_frac, fixed_rr, stop_loss_pct_cfg,
                   take_profit_pct_cfg, max_exposure_usd, trailing_stop_pct, fee_pct)

----------------------------------------------------------------------------
(* The monolithic loop: core/engine.py run_backtest *)

\* entry decision of the loop, from the refreshed entry_conditions local
EngineEntryMet(direction, entry_conditions, r, adx_threshold) ==
    LET entry_met == AllHold(entry_conditions, r, adx_threshold)
        short_entry == AllHold(InvertAll(entry_conditions), r, adx_threshold)
    IN IF direction = "short" THEN short_entry
       ELSE IF direction = "both" THEN entry_met \/ short_entry
       ELSE entry_met

\* position sizing of the loop: size and the per-trade stop percentage
EngineSizing(sizing, capital, price, atr, risk_per_trade_frac, atr_multiplier, stop_loss_pct_cfg, max_exposure_usd) ==
    IF sizing = "atr" THEN
        LET risk_amount == MulFrac(capital, risk_per_trade_frac)
            raw_distance == atr * atr_multiplier
            min_stop == price * 50
            stop_distance == IF raw_distance <= 0 THEN min_stop
                             ELSE Max(raw_distance, min_stop)
        IN [ position_size |-> (risk_amount * Scale) \div stop_distance,
             stop_loss_pct |-> stop_distance \div price ]
    ELSE IF sizing = "equity_pct" THEN
        [ position_size |-> MulFrac(capital, risk_per_trade_frac) \div price,
          stop_loss_pct |-> stop_loss_pct_cfg ]
    ELSE
        [ position_size |-> max_exposure_usd \div price,
          stop_loss_pct |-> stop_loss_pct_cfg ]

\* take-profit test of the loop, on the take_profit_pct local
EngineTakeProfitHit(is_long, price, entry_price, tp_pct) ==
    \/ is_long /\ price * Scale >= entry_price * (Scale + tp_pct)
    \/ ~is_long /\ price * Scale <= entry_price * (Scale - tp_pct)

\* exit section of the loop body; is_long is read once, before the checks
EngineExits(s, r, strat, signal_exit, trailing_stop_pct, tp_pct, adx_threshold, partial_exit_pct) ==
    IF s.position = 0 THEN s
    ELSE
    LET price == r.close
        is_long == s.position > 0
        tp_hit == EngineTakeProfitHit(is_long, price, s.entry_price, tp_pct)
        tp_amount == TakeProfitAmount(s.position, partial_exit_pct)
        s1 == IF tp_hit
              THEN [BookClose(s, r, price, tp_amount, is_long, "take_profit", strat.name, FEE_PCT)
                      EXCEPT !.position = IF is_long THEN @ - tp_amount ELSE @ + tp_amount]
              ELSE s
    IN IF tp_hit /\ s1.position = 0 THEN s1
       ELSE IF StopLossHit(is_long, price, s1.stop_price)
       THEN [BookClose(s1, r, price, Abs(s1.position), is_long, "stop_loss", strat.name, FEE_PCT)
               EXCEPT !.position = 0]
       ELSE
       LET s2 == IF s1.trailing_active
                 THEN [s1 EXCEPT !.stop_price = TrailingStop(is_long, s1.stop_price,
                                     s1.high_water, s1.low_water, trailing_stop_pct)]
                 ELSE s1
       IN IF SignalExitMet(is_long, signal_exit, r, adx_threshold)
          THEN [BookClose(s2, r, price, Abs(s2.position), is_long, "signal_exit", strat.name, FEE_PCT)
                  EXCEPT !.position = 0]
          ELSE s2

\* final close of the loop
EngineFinalClose(s, last_row, strat) ==
    IF s.position # 0
    THEN [BookClose(s, last_row, last_row.close, Abs(s.position), s.position > 0,
                    "end_of_simulation", strat.name, FEE_PCT)
            EXCEPT !.position = 0]
    ELSE s

----------------------------------------------------------------------------
(* Runs *)

\* fraction of equity per position handed to the modular sizer
PositionFracs == {1000}

Modes == {"normal"}

RouterTables ==
    { NoMappings,
      Mappings([trending_up |-> "short_rsi", trending_down |-> "trend_macd"]) }

RunConfigs ==
    { [impl |-> m, mode |-> md, use_router |-> FALSE, strategy_name |-> k,
       strategy_mappings |-> NoMappings, position_frac |-> pf] :
         m \in {"engine", "modular"}, md \in Modes, k \in StrategyKeys,
         pf \in PositionFracs }
    \cup
    { [impl |-> m, mode |-> md, use_router |-> TRUE, strategy_name |-> "trend_macd",
       strategy_mappings |-> t, position_frac |-> pf] :
         m \in {"engine", "modular"}, md \in Modes, t \in RouterTables,
         pf \in PositionFracs }

mode_params == get_mode_params(run.mode)

NoStrategy == [name |-> NoneVal]

NoRow == [timestamp |-> 0 - 1]

WithTs(c, ts) == Put(c, "timestamp", ts)

\* no classification in progress
ClassifierIdle ==
    /\ df = <<>>
    /\ hyst = [pc |-> "idle"]

\* the registry as load_strategies leaves it, and no sweep in progress
SweepIdle ==
    /\ registry = _STRATEGIES
    /\ sweeps = <<>>
    /\ probes = {}

\* no call of compute_position_and_stops in progress
SizingIdle == call = [pc |-> "idle"]

AuxIdle ==
    /\ ClassifierIdle
    /\ SweepIdle
    /\ SizingIdle

Init ==
    /\ run \in RunConfigs
    /\ pc = "start"
    /\ i = 0
    /\ row = NoRow
    /\ current_strategy = NoStrategy
    /\ cfg = [sizing |-> NoneVal]
    /\ stop_loss_pct = 0
    /\ take_profit_pct = 0
    /\ state = [init_backtest_state(0) EXCEPT !.equity = <<>>]
    /\ entry_log = <<>>
    /\ AuxIdle

\* mutant: the setup of the run is done before the emptiness test
NoData_setup ==
    /\ pc = "start"
    /\ pc' = "nodata"
    /\ state' = init_backtest_state(STARTING_CAPITAL)
    /\ UNCHANGED <<run, i, row, current_strategy, cfg, stop_loss_pct,
                   take_profit_pct, entry_log>>
    /\ UNCHANGED aux_vars

\* df.empty: return "No data", None
NoData ==
    /\ pc = "start"
    /\ pc' = "nodata"
    /\ UNCHANGED <<run, i, row, current_strategy, cfg, stop_loss_pct,
                   take_profit_pct, state, entry_log>>
    /\ UNCHANGED aux_vars

\* setup of a run on a non-empty series; first is df.iloc[0]
Setup ==
    /\ pc = "start"
    /\ \E g \in Regimes :
         LET first == WithTs(Candle(100, "none", 50, g), 0) IN
         /\ row' = first
         /\ IF run.use_router /\ RouterRaises(first.regime, run.strategy_mappings)
            THEN /\ pc' = "raised"
                 /\ UNCHANGED <<current_strategy, cfg, stop_loss_pct, take_profit_pct, state>>
            ELSE LET strat == IF run.use_router
                              THEN get_active_strategy(first.regime, run.strategy_mappings)
                              ELSE get_strategy(run.strategy_name)
                     locals == StrategyLocals(strat)
                 IN /\ current_strategy' = strat
                    /\ cfg' = locals
                    /\ stop_loss_pct' = locals.stop_loss_pct_cfg
                    /\ take_profit_pct' = MulFrac(locals.stop_loss_pct_cfg, mode_params.fixed_rr)
                    /\ state' = init_backtest_state(STARTING_CAPITAL)
                    /\ pc' = "loop"
    /\ UNCHANGED <<run, i, entry_log>>
    /\ UNCHANGED aux_vars

\* the candle series the loop may see next: the regime label changes at most
\* MaxRegimeFlips times
NextCandles ==
    { c \in CandleShapes :
        (state.prev_regime # NoneVal /\ CurrentRegime(c) # state.prev_regime)
            => state.regime_changes < MaxRegimeFlips }

\* loop head and regime tracking of the monolithic loop
EngineNextBar ==
    /\ pc = "loop" /\ run.impl = "engine" /\ i < MaxBars
    /\ \E c \in NextCandles :
         /\ row' = WithTs(c, i + 1)
         /\ state' = EngineRegimeTracking(state, CurrentRegime(c))
    /\ i' = i + 1
    /\ pc' = IF run.use_router THEN "router" ELSE "track"
    /\ UNCHANGED <<run, current_strategy, cfg, stop_loss_pct, take_profit_pct, entry_log>>
    /\ UNCHANGED aux_vars

\* loop head with update_regime_for_bar
ModularNextBar ==
    /\ pc = "loop" /\ run.impl = "modular" /\ i < MaxBars
    /\ \E c \in NextCandles :
         /\ row' = WithTs(c, i + 1)
         /\ state' = update_regime_for_bar(state, CurrentRegime(c))
    /\ i' = i + 1
    /\ pc' = IF run.use_router THEN "router" ELSE "track"
    /\ UNCHANGED <<run, current_strategy, cfg, stop_loss_pct, take_profit_pct, entry_log>>
    /\ UNCHANGED aux_vars

\* mutant: the locals are not reloaded while a position is open
RouterUpdate_hold ==
    /\ pc = "router"
    /\ IF RouterRaises(CurrentRegime(row), run.strategy_mappings)
       THEN /\ pc' = "raised"
            /\ UNCHANGED <<current_strategy, cfg, stop_loss_pct, take_profit_pct>>
       ELSE LET strat == get_active_strategy(CurrentRegime(row), run.strategy_mappings)
                locals == StrategyLocals(strat)
            IN /\ current_strategy' = IF state.position # 0 THEN current_strategy ELSE strat
               /\ cfg' = IF state.position # 0 THEN cfg ELSE locals
               /\ stop_loss_pct' = locals.stop_loss_pct_cfg
               /\ take_profit_pct' = MulFrac(locals.stop_loss_pct_cfg, mode_params.fixed_rr)
               /\ pc' = "track"
    /\ UNCHANGED <<run, i, row, state, entry_log>>
    /\ UNCHANGED aux_vars

\* router update: re-resolve the strategy for the candle's regime and reload
\* the locals, also while a position is open
RouterUpdate ==
    /\ pc = "router"
    /\ IF RouterRaises(CurrentRegime(row), run.strategy_mappings)
       THEN /\ pc' = "raised"
            /\ UNCHANGED <<current_strategy, cfg, stop_loss_pct, take_profit_pct>>
       ELSE LET strat == get_active_strategy(CurrentRegime(row), run.strategy_mappings)
                locals == StrategyLocals(strat)
            IN /\ current_strategy' = strat
               /\ cfg' = locals
               /\ stop_loss_pct' = locals.stop_loss_pct_cfg
               /\ take_profit_pct' = MulFrac(locals.stop_loss_pct_cfg, mode_params.fixed_rr)
               /\ pc' = "track"
    /\ UNCHANGED <<run, i, row, state, entry_log>>
    /\ UNCHANGED aux_vars

EngineTrack ==
    /\ pc = "track" /\ run.impl = "engine"
    /\ state' = EnginePositionTracking(state, row.high, row.low)
    /\ pc' = "entry"
    /\ UNCHANGED <<run, i, row, current_strategy, cfg, stop_loss_pct, take_profit_pct, entry_log>>
    /\ UNCHANGED aux_vars

ModularTrack ==
    /\ pc = "track" /\ run.impl = "modular"
    /\ state' = update_position_tracking_for_bar(state, row.high, row.low)
    /\ pc' = "entry"
    /\ UNCHANGED <<run, i, row, current_strategy, cfg, stop_loss_pct, take_profit_pct, entry_log>>
    /\ UNCHANGED aux_vars

\* the entry conditions of the strategy after the entry section: they pass
\* through invert_condition when the account is flat and the direction is
\* short or both
EntryConditionsAfter(s, direction, entry_conditions, r, adx_threshold) ==
    IF s.position = 0 /\ direction \in {"short", "both"}
    THEN ArgsAfterAll(entry_conditions, r, adx_threshold)
    ELSE entry_conditions

\* the signal-exit conditions of the strategy after the exit section: they
\* pass through invert_condition when a short position reaches step 4, that
\* is when neither a full take-profit nor the stop closed it; rechecks tells
\* whether is_long is read again after the take-profit
SignalExitAfter(s, r, signal_exit, tp_hit, partial_exit_pct, rechecks) ==
    IF s.position = 0 THEN signal_exit
    ELSE
    LET is_long0 == s.position > 0
        tp_amount == TakeProfitAmount(s.position, partial_exit_pct)
        position1 == IF ~tp_hit THEN s.position
                     ELSE IF is_long0 THEN s.position - tp_amount
                     ELSE s.position + tp_amount
        is_long == IF rechecks THEN position1 > 0 ELSE is_long0
    IN IF tp_hit /\ position1 = 0 THEN signal_exit
       ELSE IF StopLossHit(is_long, r.close, s.stop_price) THEN signal_exit
       ELSE IF ~is_long THEN ArgsAfterInvertAll(signal_exit)
       ELSE signal_exit

\* the strategy dict and the locals that alias its lists, with the entry
\* conditions as the step leaves them
WithEntryConditions(strat, locals, conds) ==
    [ strat |-> [strat EXCEPT !.entry.conditions = conds],
      locals |-> [locals EXCEPT !.entry_conditions = conds] ]

\* the same for the signal-exit list; a strategy without one gave the loop
\* a new empty list
WithSignalExit(strat, locals, conds) ==
    [ strat |-> IF Has(strat.exit, "signal_exit")
                THEN [strat EXCEPT !.exit.signal_exit = conds]
                ELSE strat,
      locals |-> [locals EXCEPT !.signal_exit = conds] ]

\* what the entry log remembers of an entry
EntryNote(s, strat) ==
    [ ts |-> s.entry_ts, strategy |-> strat.name, is_long |-> s.position > 0,
      take_profit_pct |-> s.entry_take_profit_pct, capital |-> s.capital,
      trailing_stop_pct |-> cfg.trailing_stop_pct ]

\* entry section of the monolithic loop
EngineEntry ==
    /\ pc = "entry" /\ run.impl = "engine"
    /\ IF state.position = 0
          /\ EngineEntryMet(current_strategy.direction, cfg.entry_conditions, row,
                            mode_params.adx_threshold)
       THEN LET sized == EngineSizing(cfg.sizing, state.capital, row.close, row.atr,
                             mode_params.risk_per_trade_frac, cfg.atr_multiplier,
                             cfg.stop_loss_pct_cfg, cfg.max_exposure_usd)
                tp == MulFrac(sized.stop_loss_pct, mode_params.fixed_rr)
                opened == OpenPosition(state, row, CurrentRegime(row),
                              EngineEntryIsLong(current_strategy.direction),
                              sized.position_size, sized.stop_loss_pct, tp,
                              cfg.trailing_stop_pct)
            IN /\ state' = opened
               /\ stop_loss_pct' = sized.stop_loss_pct
               /\ take_profit_pct' = tp
               /\ entry_log' = Append(entry_log, EntryNote(opened, current_strategy))
       ELSE UNCHANGED <<state, stop_loss_pct, take_profit_pct, entry_log>>
    /\ LET after == WithEntryConditions(current_strategy, cfg,
                        EntryConditionsAfter(state, current_strategy.direction,
                            cfg.entry_conditions, row, mode_params.adx_threshold))
       IN /\ current_strategy' = after.strat
          /\ cfg' = after.locals
    /\ pc' = "exit"
    /\ UNCHANGED <<run, i, row>>
    /\ UNCHANGED aux_vars

\* maybe_open_position, called with the locals of the candle
ModularEntry ==
    /\ pc = "entry" /\ run.impl = "modular"
    /\ state' = maybe_open_position(state, row, current_strategy, CurrentRegime(row),
                    mode_params.adx_threshold, cfg.sizing, run.position_frac,
                    mode_params.risk_per_trade_frac, mode_params.fixed_rr,
                    cfg.stop_loss_pct_cfg, cfg.take_profit_pct_cfg,
                    cfg.max_exposure_usd, cfg.trailing_stop_pct, FEE_PCT)
    /\ entry_log' = IF state' # state
                    THEN Append(entry_log, EntryNote(state', current_strategy))
                    ELSE entry_log
    /\ LET after == WithEntryConditions(current_strategy, cfg,
                        EntryConditionsAfter(state, current_strategy.direction,
                            current_strategy.entry.conditions, row, mode_params.adx_threshold))
       IN /\ current_strategy' = after.strat
          /\ cfg' = after.locals
    /\ pc' = "exit"
    /\ UNCHANGED <<run, i, row, stop_loss_pct, take_profit_pct>>
    /\ UNCHANGED aux_vars

\* mutant: the entry check runs once more after the exit checks of the candle
EngineExit_reenter ==
    /\ pc = "exit" /\ run.impl = "engine"
    /\ state' = EngineExits(state, row, current_strategy, cfg.signal_exit,
                    cfg.trailing_stop_pct, take_profit_pct,
                    mode_params.adx_threshold, cfg.partial_exit_pct)
    /\ LET tp_hit == /\ state.position # 0
                     /\ EngineTakeProfitHit(state.position > 0, row.close,
                                            state.entry_price, take_profit_pct)
           after == WithSignalExit(current_strategy, cfg,
                        SignalExitAfter(state, row, cfg.signal_exit, tp_hit,
                                        cfg.partial_exit_pct, FALSE))
       IN /\ current_strategy' = after.strat
          /\ cfg' = after.locals
    /\ pc' = IF state.position # 0 /\ state'.position = 0 THEN "entry" ELSE "loop"
    /\ UNCHANGED <<run, i, row, stop_loss_pct, take_profit_pct, entry_log>>
    /\ UNCHANGED aux_vars

\* exit section of the monolithic loop
EngineExit ==
    /\ pc = "exit" /\ run.impl = "engine"
    /\ state' = EngineExits(state, row, current_strategy, cfg.signal_exit,
                    cfg.trailing_stop_pct, take_profit_pct,
                    mode_params.adx_threshold, cfg.partial_exit_pct)
    /\ LET tp_hit == /\ state.position # 0
                     /\ EngineTakeProfitHit(state.position > 0, row.close,
                                            state.entry_price, take_profit_pct)
           after == WithSignalExit(current_strategy, cfg,
                        SignalExitAfter(state, row, cfg.signal_exit, tp_hit,
                                        cfg.partial_exit_pct, FALSE))
       IN /\ current_strategy' = after.strat
          /\ cfg' = after.locals
    /\ pc' = "loop"
    /\ UNCHANGED <<run, i, row, stop_loss_pct, take_profit_pct, entry_log>>
    /\ UNCHANGED aux_vars

\* handle_exits_for_bar, called with the locals of the candle
ModularExit ==
    /\ pc = "exit" /\ run.impl = "modular"
    /\ state' = handle_exits_for_bar(state, row, current_strategy, cfg.signal_exit,
                    cfg.trailing_stop_pct, FEE_PCT, mode_params.adx_threshold,
                    cfg.partial_exit_pct)
    /\ LET tp_hit == /\ state.position # 0
                     /\ TakeProfitHit(state.position > 0, row.close,
                                      state.entry_price, state.entry_take_profit_pct)
           after == WithSignalExit(current_strategy, cfg,
                        SignalExitAfter(state, row, cfg.signal_exit, tp_hit,
                                        cfg.partial_exit_pct, TRUE))
       IN /\ current_strategy' = after.strat
          /\ cfg' = after.locals
    /\ pc' = "loop"
    /\ UNCHANGED <<run, i, row, stop_loss_pct, take_profit_pct, entry_log>>
    /\ UNCHANGED aux_vars

\* the series ends after the candle just processed: final close
EngineEnd ==
    /\ pc = "loop" /\ run.impl = "engine"
    /\ state' = EngineFinalClose(state, row, current_strategy)
    /\ pc' = "done"
    /\ UNCHANGED <<run, i, row, current_strategy, cfg, stop_loss_pct, take_profit_pct, entry_log>>
    /\ UNCHANGED aux_vars

ModularEnd ==
    /\ pc = "loop" /\ run.impl = "modular"
    /\ state' = close_at_end_of_data(state, row, current_strategy, FEE_PCT)
    /\ pc' = "done"
    /\ UNCHANGED <<run, i, row, current_strategy, cfg, stop_loss_pct, take_profit_pct, entry_log>>
    /\ UNCHANGED aux_vars

Next ==
    \/ NoData
    \/ Setup
    \/ EngineNextBar
    \/ ModularNextBar
    \/ RouterUpdate
    \/ EngineTrack
    \/ ModularTrack
    \/ EngineEntry
    \/ ModularEntry
    \/ EngineExit
    \/ ModularExit
    \/ EngineEnd
    \/ ModularEnd

Spec == Init /\ [][Next]_vars

----------------------------------------------------------------------------
(* Regime classifier: the hysteresis pass of core/indicators.py             *)
(* add_indicators_and_regime.  df is the data frame, one record per candle, *)
(* rows numbered from 0 (the RangeIndex read_csv gives): row k is df[k+1].  *)
(* The loop reads one row per iteration and writes no row beyond it, so the *)
(* series is drawn row by row as the loop reads it.                         *)

\* number of candles of the series
MaxCandles == 10

\* a row before the pass: its raw classification, the three flag columns
\* False, no regime column yet
NewRow(raw) ==
    [ raw |-> raw, trending_up |-> FALSE, trending_down |-> FALSE,
      ranging |-> FALSE, regime |-> NoneVal ]

\* df.loc[first:last, col] = True: a label slice, both ends included
SetFlag(frame, first, last, col) ==
    [ k \in 1..Len(frame) |->
        IF first <= k - 1 /\ k - 1 <= last THEN [frame[k] EXCEPT ![col] = TRUE]
        ELSE frame[k] ]

\* the regime column: "ranging", overwritten where trending_up is set, then
\* where trending_down is set
RegimeColumn(r) ==
    IF r.trending_down THEN STRATEGY_TRENDING_DOWN
    ELSE IF r.trending_up THEN STRATEGY_TRENDING_UP
    ELSE STRATEGY_RANGING

\* engine variables of a specification that runs no backtest
EngineIdle ==
    /\ run = [impl |-> NoneVal]
    /\ pc = "idle"
    /\ i = 0
    /\ row = NoRow
    /\ current_strategy = NoStrategy
    /\ cfg = [sizing |-> NoneVal]
    /\ stop_loss_pct = 0
    /\ take_profit_pct = 0
    /\ state = [init_backtest_state(0) EXCEPT !.equity = <<>>]
    /\ entry_log = <<>>

\* current_regime = None, regime_start = 0, before the loop
HystInit ==
    /\ EngineIdle
    /\ SweepIdle
    /\ SizingIdle
    /\ df = <<>>
    /\ hyst = [pc |-> "loop", i |-> 0, current_regime |-> NoneVal, regime_start |-> 0]

\* one iteration of the loop, on row hyst.i
HystStep ==
    /\ hyst.pc = "loop"
    /\ hyst.i < MaxCandles
    /\ \E new_regime \in Regimes :
         LET read == Append(df, NewRow(new_regime))
             commit == /\ hyst.current_regime # NoneVal
                       /\ hyst.i - hyst.regime_start >= REGIME_MIN_DURATION
         IN IF new_regime # hyst.current_regime
            THEN /\ df' = IF commit
                          THEN SetFlag(read, hyst.regime_start, hyst.i, hyst.current_regime)
                          ELSE read
                 /\ hyst' = [hyst EXCEPT !.i = @ + 1, !.regime_start = hyst.i,
                                         !.current_regime = new_regime]
            ELSE /\ df' = read
                 /\ hyst' = [hyst EXCEPT !.i = @ + 1]
    /\ UNCHANGED <<engine_vars, sweep_vars, sizing_vars>>

\* after the last row: the open segment is committed if long enough, and the
\* regime column is filled in
HystEnd ==
    /\ hyst.pc = "loop"
    /\ LET n == Len(df)
           flagged == IF /\ hyst.current_regime # NoneVal
                         /\ n - hyst.regime_start >= REGIME_MIN_DURATION
                      THEN SetFlag(df, hyst.regime_start, n - 1, hyst.current_regime)
                      ELSE df
       IN df' = [k \in 1..n |-> [flagged[k] EXCEPT !.regime = RegimeColumn(flagged[k])]]
    /\ hyst' = [hyst EXCEPT !.pc = "done"]
    /\ UNCHANGED <<engine_vars, sweep_vars, sizing_vars>>

HystNext ==
    \/ HystStep
    \/ HystEnd

SpecRegime == HystInit /\ [][HystNext]_vars

----------------------------------------------------------------------------
(* Strategy parameter sweep: core/optimizer_strategy.py, over the registry *)
(* of core/strategy_loader.py                                              *)

\* the callers that may run a sweep; their calls may overlap
SweepIds == {1, 2}

\* strategy names passed by the callers; "no_such" is not in the registry
SweepNames == {"trend_macd", "Trend_MACD", "range_rsi_bb", "no_such"}

\* name.lower(), on the names above
Lower(name) == IF name = "Trend_MACD" THEN "trend_macd" ELSE name

\* strategy names of the runs made outside of a sweep
ProbeNames == {"trend_macd", "Trend_MACD"}

\* dotted paths of the grids
Paths == {"exit.stop_loss", "entry.conditions", "entry.conditions[1].above"}

\* a raised exception, in place of a return value
Raised(exc) == [raised |-> TRUE, exc |-> exc]

Returned(value) == [raised |-> FALSE, value |-> value]

\* _apply_path_override on the paths above: "exit" and "entry" are dict
\* nodes of every strategy, so the intermediate normal keys descend
_apply_path_override(target, path, value) ==
    IF path = "exit.stop_loss"
    THEN Returned([target EXCEPT !.exit = Put(@, "stop_loss", value)])
    ELSE IF path = "entry.conditions"
    THEN Returned([target EXCEPT !.entry = Put(@, "conditions", value)])
    ELSE \* "entry.conditions[1].above": key = "conditions", idx = 1
         IF ~Has(target.entry, "conditions")
         THEN Raised("KeyError")
         ELSE LET lst == target.entry.conditions
              IN IF 1 >= Len(lst)
                 THEN Raised("IndexError")
                 ELSE Returned([target EXCEPT !.entry.conditions[2] = Put(@, "above", value)])

\* _apply_strategy_overrides: the overrides of one combination applied in
\* dict order to a deep copy; the first exception ends it
RECURSIVE ApplyOverrides(_, _)
ApplyOverrides(new_cfg, overrides) ==
    IF overrides = <<>> THEN Returned(new_cfg)
    ELSE LET applied == _apply_path_override(new_cfg, Head(overrides).path, Head(overrides).value)
         IN IF applied.raised THEN applied
            ELSE ApplyOverrides(applied.value, Tail(overrides))

_apply_strategy_overrides(base_strategy, overrides) == ApplyOverrides(base_strategy, overrides)

\* itertools.product of the value lists: the last list varies fastest
RECURSIVE Product(_)
Product(values_lists) ==
    IF values_lists = <<>> THEN << <<>> >>
    ELSE LET head == Head(values_lists)
             rest == Product(Tail(values_lists))
         IN [ n \in 1..(Len(head) * Len(rest)) |->
                <<head[((n - 1) \div Len(rest)) + 1]>> \o rest[((n - 1) % Len(rest)) + 1] ]

\* _build_strategy_param_combinations: one override dict per element of the
\* product, none for an empty grid
_build_strategy_param_combinations(param_grid) ==
    IF param_grid = <<>> THEN <<>>
    ELSE LET combos == Product([k \in DOMAIN param_grid |-> param_grid[k].values])
         IN [ n \in DOMAIN combos |->
                [ k \in DOMAIN param_grid |->
                    [path |-> param_grid[k].path, value |-> combos[n][k]] ] ]

\* the grids caller s may pass: none, two stop distances, or two condition
\* lists together with a threshold for the second condition
Grids(s) ==
    { <<>>,
      << [path |-> "exit.stop_loss", values |-> <<Num(100 * s), Num(100 * s + 50)>>] >>,
      << [path |-> "entry.conditions",
          values |-> << <<rsi_above_70, adx_above_mode>>, <<rsi_above_70>> >>],
         [path |-> "entry.conditions[1].above", values |-> <<20 + s>>] >> }

Active(s) == sweeps[s].pc \in {"loop", "run"}

\* the registry lookup of strategy_loader.get_strategy, on the registry as
\* it is now
LookUp(reg, name) ==
    IF Lower(name) \in DOMAIN reg THEN Returned(reg[Lower(name)]) ELSE Raised("ValueError")

\* mutant: the sweep leaves its last override in the registry
RestoreEntry_skip(reg, strategy_name, original_strategy) == reg

\* strategies_dict[strategy_name] = original_strategy
RestoreEntry(reg, strategy_name, original_strategy) == Put(reg, strategy_name, original_strategy)

SweepInit ==
    /\ EngineIdle
    /\ ClassifierIdle
    /\ SizingIdle
    /\ registry = _STRATEGIES
    /\ sweeps = [s \in SweepIds |-> [pc |-> "idle"]]
    /\ probes = {}

\* the call, up to the loop: the baseline is read from the registry; before
\* and alone are history, for the properties
SweepCall(s) ==
    /\ sweeps[s].pc = "idle"
    /\ \E strategy_name \in SweepNames, grid \in Grids(s) :
         LET found == LookUp(registry, strategy_name)
             others == { t \in SweepIds \ {s} : Active(t) }
         IN sweeps' = [ t \in SweepIds |->
                IF t = s
                THEN IF found.raised
                     THEN [pc |-> "raised", exc |-> found.exc]
                     ELSE [ pc |-> "loop", strategy_name |-> strategy_name,
                            original_strategy |-> found.value,
                            overrides_list |-> _build_strategy_param_combinations(grid),
                            k |-> 1, rows |-> <<>>,
                            before |-> registry, alone |-> others = {} ]
                ELSE IF Active(t) THEN [sweeps[t] EXCEPT !.alone = FALSE] ELSE sweeps[t] ]
    /\ UNCHANGED <<registry, probes>>
    /\ UNCHANGED <<engine_vars, classifier_vars, sizing_vars>>

\* head of one iteration: the overrides are applied to a copy of the
\* baseline, outside of the try, and the result is put under the name as given
SweepInject(s) ==
    /\ sweeps[s].pc = "loop"
    /\ sweeps[s].k <= Len(sweeps[s].overrides_list)
    /\ LET overridden == _apply_strategy_overrides(sweeps[s].original_strategy,
                                                   sweeps[s].overrides_list[sweeps[s].k])
       IN IF overridden.raised
          THEN /\ sweeps' = [sweeps EXCEPT ![s].pc = "raised"]
               /\ UNCHANGED registry
          ELSE /\ registry' = Put(registry, sweeps[s].strategy_name, overridden.value)
               /\ sweeps' = [sweeps EXCEPT ![s].pc = "run"]
    /\ UNCHANGED probes
    /\ UNCHANGED <<engine_vars, classifier_vars, sizing_vars>>

\* the run of the iteration: run_backtest reads the registry by the
\* lower-cased name; a result gives a row, None gives none, an exception
\* gives a row of NaN
SweepRun(s) ==
    /\ sweeps[s].pc = "run"
    /\ \E outcome \in {"result", "none", "exception"} :
         LET read == LookUp(registry, sweeps[s].strategy_name).value
             row_ == [ overrides |-> sweeps[s].overrides_list[sweeps[s].k],
                       config |-> IF outcome = "result" THEN read ELSE NoneVal,
                       read |-> read ]
         IN sweeps' = [sweeps EXCEPT ![s].pc = "loop", ![s].k = @ + 1,
                                     ![s].rows = IF outcome = "none" THEN @ ELSE Append(@, row_)]
    /\ UNCHANGED <<registry, probes>>
    /\ UNCHANGED <<engine_vars, classifier_vars, sizing_vars>>

\* after the loop: the baseline is put back under the name as given
SweepRestore(s) ==
    /\ sweeps[s].pc = "loop"
    /\ sweeps[s].k > Len(sweeps[s].overrides_list)
    /\ registry' = RestoreEntry(registry, sweeps[s].strategy_name, sweeps[s].original_strategy)
    /\ sweeps' = [sweeps EXCEPT ![s].pc = "returned"]
    /\ UNCHANGED probes
    /\ UNCHANGED <<engine_vars, classifier_vars, sizing_vars>>

\* a run outside of any sweep: the configuration it reads decides its result
ProbeRun ==
    /\ \A s \in SweepIds : ~Active(s)
    /\ \E strategy_name \in ProbeNames :
         probes' = probes \cup { [ strategy_name |-> strategy_name,
                                   config |-> LookUp(registry, strategy_name).value ] }
    /\ UNCHANGED <<registry, sweeps>>
    /\ UNCHANGED <<engine_vars, classifier_vars, sizing_vars>>

SweepNext ==
    \/ \E s \in SweepIds : SweepCall(s)
    \/ \E s \in SweepIds : SweepInject(s)
    \/ \E s \in SweepIds : SweepRun(s)
    \/ \E s \in SweepIds : SweepRestore(s)
    \/ ProbeRun

SpecSweep == SweepInit /\ [][SweepNext]_vars

----------------------------------------------------------------------------
(* One call of the position sizer: core/sizing.py compute_position_and_stops *)

\* the arguments a caller may pass: amounts and fractions in units of
\* 1/Scale, the price a whole number; the risk fractions and reward
\* multiples are those of get_mode_params
SizingArgs ==
    [ capital : {0, 500 * Scale, STARTING_CAPITAL},
      price : {0, 50, 100},
      position_frac : {0, 500, 1000, Scale},
      risk_per_trade_frac : {get_mode_params(m).risk_per_trade_frac : m \in {"conservative", "aggressive", "normal"}},
      fixed_rr : {get_mode_params(m).fixed_rr : m \in {"conservative", "aggressive", "normal"}},
      sizing : {"equity_pct", "fixed_usd", "atr"},
      stop_loss_pct_cfg : {300, 1000},
      take_profit_pct_cfg : {1800},
      max_exposure_usd : {50 * Scale, 100 * Scale},
      fee_pct : {FEE_PCT, 100 * FEE_PCT} ]

SizingInit ==
    /\ EngineIdle
    /\ ClassifierIdle
    /\ SweepIdle
    /\ \E args \in SizingArgs : call = [pc |-> "called", args |-> args]

\* the body of compute_position_and_stops, up to its return
SizingReturn ==
    /\ call.pc = "called"
    /\ call' = [ pc |-> "returned", args |-> call.args,
                 result |-> compute_position_and_stops(call.args.capital, call.args.price,
                               call.args.position_frac, call.args.risk_per_trade_frac,
                               call.args.fixed_rr, call.args.sizing,
                               call.args.stop_loss_pct_cfg, call.args.take_profit_pct_cfg,
                               call.args.max_exposure_usd, call.args.fee_pct) ]
    /\ UNCHANGED <<engine_vars, classifier_vars, sweep_vars>>

\* the caller's lines after the sizer returned: the floor on the size and
\* the assignments that open the position (state.py 159-191)
SizingOpen ==
    /\ call.pc = "returned"
    /\ \E is_long \in BOOLEAN, regime \in {STRATEGY_RANGING, STRATEGY_TRENDING_DOWN} :
         LET r == WithTs(Candle(call.args.price, "none", 50, regime), 1)
         IN call' = [ pc |-> "open", args |-> call.args, result |-> call.result,
                      row |-> r,
                      state |-> OpenPosition(init_backtest_state(call.args.capital), r,
                                    regime, is_long, call.result.position_size,
                                    call.result.stop_loss_pct, call.result.take_profit_pct, 0) ]
    /\ UNCHANGED <<engine_vars, classifier_vars, sweep_vars>>

SizingNext ==
    \/ SizingReturn
    \/ SizingOpen

SpecSizing == SizingInit /\ [][SizingNext]_vars

----------------------------------------------------------------------------
(* A full stop-out under equity_pct sizing: the sizing and stop lines of    *)
(* core/state.py maybe_open_position, then the stop-loss step of            *)
(* core/exits.py handle_exits_for_bar at a close equal to the stop price    *)

\* capital, entry price, position fraction, risk fraction of the mode and
\* side of the trade; the prices are multiples of Scale, which makes every
\* stop price a whole number
StopOutArgs ==
    [ capital : {STARTING_CAPITAL, 2 * STARTING_CAPITAL},
      price : {Scale, 2 * Scale},
      position_frac : {500, 1000, 2000, 5000, Scale},
      mode : {"conservative", "aggressive", "normal"},
      is_long : BOOLEAN ]

StopOutInit ==
    /\ EngineIdle
    /\ ClassifierIdle
    /\ SweepIdle
    /\ \E args \in StopOutArgs : call = [pc |-> "flat", args |-> args]

\* lines 144-191 of maybe_open_position, for an entry that is met
StopOutOpen ==
    /\ call.pc = "flat"
    /\ LET a == call.args
           locals == StrategyLocals(_STRATEGIES.short_rsi)
           r == WithTs(Candle(a.price, "none", 50, STRATEGY_RANGING), 1)
           sized == compute_position_and_stops(a.capital, a.price, a.position_frac,
                        get_mode_params(a.mode).risk_per_trade_frac,
                        get_mode_params(a.mode).fixed_rr, "equity_pct",
                        locals.stop_loss_pct_cfg, locals.take_profit_pct_cfg,
                        locals.max_exposure_usd, FEE_PCT)
       IN call' = [ pc |-> "open", args |-> a, sized |-> sized,
                    state |-> OpenPosition(init_backtest_state(a.capital), r,
                                  STRATEGY_RANGING, a.is_long, sized.position_size,
                                  sized.stop_loss_pct, sized.take_profit_pct,
                                  locals.trailing_stop_pct) ]
    /\ UNCHANGED <<engine_vars, classifier_vars, sweep_vars>>

\* handle_exits_for_bar on the candle whose close is the stop price
StopOutClose ==
    /\ call.pc = "open"
    /\ call.state.stop_price % Scale = 0
    /\ LET locals == StrategyLocals(_STRATEGIES.short_rsi)
           r == WithTs(Candle(call.state.stop_price \div Scale, "none", 50, STRATEGY_RANGING), 2)
       IN call' = [call EXCEPT !.pc = "closed",
                               !.state = handle_exits_for_bar(call.state, r,
                                             _STRATEGIES.short_rsi, <<>>,
                                             locals.trailing_stop_pct, FEE_PCT,
                                             get_mode_params(call.args.mode).adx_threshold,
                                             locals.partial_exit_pct)]
    /\ UNCHANGED <<engine_vars, classifier_vars, sweep_vars>>

StopOutNext ==
    \/ StopOutOpen
    \/ StopOutClose

SpecStopOut == StopOutInit /\ [][StopOutNext]_vars

----------------------------------------------------------------------------
(* invert_condition applied twice: core/conditions.py and core/engine.py    *)

\* condition types with a mirror, and types without one
InvertibleTypes ==
    { "rsi", "macd_cross", "ema_cross", "stochastic_cross", "price_above_ema",
      "price_below_ema", "price_above_bb", "price_below_bb", "price_near_bb_lower",
      "price_near_bb_upper", "price_crosses_mid_bb", "price_crosses_mid_bb_down",
      "breakout_high", "breakout_low", "volatility_expansion", "range_contraction",
      "trend_pullback" }

PlainTypes == {"adx", "volume_zscore"}

\* the conditions a strategy file may hold, one shape per parameter set
Conditions ==
    { [type |-> "rsi", below |-> v] : v \in {20, 30, 70} }
    \cup { [type |-> "rsi", above |-> v] : v \in {30, 70, 80} }
    \cup { [type |-> t, direction |-> d] : t \in {"macd_cross", "stochastic_cross"}, d \in {"up", "down"} }
    \cup { [type |-> "ema_cross", direction |-> d, fast |-> 9, slow |-> 21] : d \in {"up", "down"} }
    \cup { [type |-> t, period |-> n] : t \in {"price_above_ema", "price_below_ema"}, n \in {50, 150} }
    \cup { [type |-> t] : t \in {"price_above_bb", "price_below_bb", "price_crosses_mid_bb", "price_crosses_mid_bb_down"} }
    \cup { [type |-> t, tolerance |-> n] : t \in {"price_near_bb_lower", "price_near_bb_upper"}, n \in {1, 2} }
    \cup { [type |-> t, lookback |-> n] : t \in {"breakout_high", "breakout_low"}, n \in {10, 20} }
    \cup { [type |-> t, multiplier |-> n] : t \in {"volatility_expansion", "range_contraction"}, n \in {1, 2} }
    \cup { [type |-> "trend_pullback", direction |-> d, period |-> 50] : d \in {"long", "short"} }
    \cup { [type |-> "adx", above |-> v] : v \in {25, mode_threshold} }
    \cup { [type |-> "volume_zscore", above |-> v] : v \in {1, 2} }

\* the two copies of invert_condition
InvertBy(module, cond) ==
    IF module = "engine" THEN engine_invert_condition(cond) ELSE invert_condition(cond)

InvertInit ==
    /\ EngineIdle
    /\ ClassifierIdle
    /\ SweepIdle
    /\ \E module \in {"conditions", "engine"}, cond \in Conditions :
         call = [pc |-> "given", module |-> module, cond |-> cond]

\* inv = invert_condition(cond)
InvertOnce ==
    /\ call.pc = "given"
    /\ call' = [pc |-> "inverted", module |-> call.module, cond |-> call.cond,
                inv |-> InvertBy(call.module, call.cond)]
    /\ UNCHANGED <<engine_vars, classifier_vars, sweep_vars>>

\* back = invert_condition(inv)
InvertTwice ==
    /\ call.pc = "inverted"
    /\ call' = [pc |-> "back", module |-> call.module, cond |-> call.cond,
                inv |-> call.inv, back |-> InvertBy(call.module, call.inv)]
    /\ UNCHANGED <<engine_vars, classifier_vars, sweep_vars>>

InvertNext ==
    \/ InvertOnce
    \/ InvertTwice

SpecInvert == InvertInit /\ [][InvertNext]_vars

----------------------------------------------------------------------------
(* Drawdown statistics of the result: core/results_builder.py               *)

\* length of the capital trajectories handed to the builder
MaxEquityLen == 3

\* max(equity_floats) and min(equity_floats), of a non-empty list
RECURSIVE SeqMax(_)
SeqMax(xs) == IF Len(xs) = 1 THEN xs[1] ELSE Max(Head(xs), SeqMax(Tail(xs)))

RECURSIVE SeqMin(_)
SeqMin(xs) == IF Len(xs) = 1 THEN xs[1] ELSE Min(Head(xs), SeqMin(Tail(xs)))

\* mutant: the trough is the last value of the trajectory
build_backtest_result_last(equity) ==
    LET peak == IF equity # <<>> THEN SeqMax(equity) ELSE 0
        trough == IF equity # <<>> THEN equity[Len(equity)] ELSE 0
        max_dd == IF equity # <<>> THEN peak - trough ELSE 0
    IN [ max_dd |-> max_dd,
         max_dd_pct |-> IF peak > 0 THEN (max_dd * 100) \div peak ELSE 0 ]

\* lines 35-38 of build_backtest_result; max_dd_pct in whole percent
build_backtest_result(equity) ==
    LET peak == IF equity # <<>> THEN SeqMax(equity) ELSE 0
        trough == IF equity # <<>> THEN SeqMin(equity) ELSE 0
        max_dd == IF equity # <<>> THEN peak - trough ELSE 0
    IN [ max_dd |-> max_dd,
         max_dd_pct |-> IF peak > 0 THEN (max_dd * 100) \div peak ELSE 0 ]

\* capital values of a trajectory, zero and a negative one included
EquityValues == {-50 * Scale, 0, 50 * Scale, STARTING_CAPITAL, 150 * Scale}

Trajectories == UNION { [1..n -> EquityValues] : n \in 0..MaxEquityLen }

DrawdownInit ==
    /\ EngineIdle
    /\ ClassifierIdle
    /\ SweepIdle
    /\ \E equity \in Trajectories : call = [pc |-> "given", equity |-> equity]

DrawdownBuild ==
    /\ call.pc = "given"
    /\ call' = [pc |-> "built", equity |-> call.equity,
                result |-> build_backtest_result(call.equity)]
    /\ UNCHANGED <<engine_vars, classifier_vars, sweep_vars>>

DrawdownNext == DrawdownBuild

SpecDrawdown == DrawdownInit /\ [][DrawdownNext]_vars

----------------------------------------------------------------------------
(* Override application: core/mapped_router.py apply_overrides_to_strategy *)
(* and core/optimizer_strategy.py _apply_strategy_overrides, on            *)
(* configurations written as trees of dict, list and scalar nodes          *)

\* most overrides in one overrides dict
MaxOverrides == 2

Dict(items) == [kind |-> "dict", items |-> items]

List(elems) == [kind |-> "list", elems |-> elems]

Val(v) == [kind |-> "val", v |-> v]

\* {}
EmptyItems == [k \in {} |-> Val(0)]

\* one dotted-path segment: a plain key, "name[idx]", or "name[x]" whose
\* index is not an integer
Key(name) == [form |-> "key", name |-> name, idx |-> 0]

Index(name, idx) == [form |-> "index", name |-> name, idx |-> idx]

BadIndex(name) == [form |-> "badindex", name |-> name, idx |-> 0]

\* the override paths, after path.split(".")
OverridePaths ==
    { <<Key("exit"), Key("stop_loss")>>,                      \* "exit.stop_loss"
      <<Key("risk"), Key("limits"), Key("max")>>,              \* "risk.limits.max"
      <<Key("entry"), Index("conditions", 1), Key("above")>>,  \* "entry.conditions[1].above"
      <<Key("entry"), Index("conditions", 2), Key("above")>>,  \* "entry.conditions[2].above"
      <<Key("entry"), Key("conditions"), Key("above")>>,       \* "entry.conditions.above"
      <<Key("exit"), Key("stop_loss"), Key("pct")>>,           \* "exit.stop_loss.pct"
      <<Key("entry"), BadIndex("conditions")>>,                \* "entry.conditions[x]"
      <<Key("entry"), Index("conditions", -1)>> }              \* "entry.conditions[-1]"

OverrideValues == {Val(7), Val(9)}

\* an overrides dict in its iteration order
OverrideDicts ==
    UNION { [1..n -> [path : OverridePaths, value : OverrideValues]] : n \in 0..MaxOverrides }

\* base configurations: a full one, and one without "entry" and "risk"
BaseConfigs ==
    { Dict([ entry |-> Dict([conditions |-> List(<< Dict([below |-> Val(30)]),
                                                    Dict([above |-> Val(25)]) >>)]),
             exit |-> Dict([stop_loss |-> Val(3)]) ]),
      Dict([ exit |-> Dict([stop_loss |-> Val(3)]) ]) }

\* position in a TLA+ sequence of Python's lst[idx]; 0 when lst[idx] raises
\* IndexError
PyPos(elems, idx) ==
    IF idx >= 0
    THEN (IF idx < Len(elems) THEN idx + 1 ELSE 0)
    ELSE (IF Len(elems) + idx >= 0 THEN Len(elems) + idx + 1 ELSE 0)

\* lst after "while len(lst) <= idx: lst.append({})"
Padded(elems, idx) ==
    IF idx < Len(elems) THEN elems
    ELSE [n \in 1..(idx + 1) |-> IF n <= Len(elems) THEN elems[n] ELSE Dict(EmptyItems)]

\* mapped_router._apply_single_override from the node current on: the node
\* after the in-place assignments; every "return" on a non-dict node leaves
\* it as it is
RECURSIVE _apply_single_override(_, _, _)
_apply_single_override(current, segments, value) ==
    LET seg == Head(segments)
        is_last == Len(segments) = 1
    IN IF current.kind # "dict" THEN Returned(current)
       ELSE IF seg.form # "index"
       THEN IF is_last THEN Returned(Dict(Put(current.items, seg.name, value)))
            ELSE LET child == IF Has(current.items, seg.name)
                                 /\ current.items[seg.name].kind \in {"dict", "list"}
                              THEN current.items[seg.name]
                              ELSE Dict(EmptyItems)
                     below == _apply_single_override(child, Tail(segments), value)
                 IN IF below.raised THEN below
                    ELSE Returned(Dict(Put(current.items, seg.name, below.value)))
       ELSE LET had == IF Has(current.items, seg.name)
                          /\ current.items[seg.name].kind = "list"
                       THEN current.items[seg.name].elems
                       ELSE <<>>
                lst == Padded(had, seg.idx)
                pos == PyPos(lst, seg.idx)
            IN IF pos = 0 THEN Raised("IndexError")
               ELSE IF is_last
               THEN Returned(Dict(Put(current.items, seg.name,
                                       List([lst EXCEPT ![pos] = value]))))
               ELSE LET elem == IF lst[pos].kind = "dict" THEN lst[pos] ELSE Dict(EmptyItems)
                        below == _apply_single_override(elem, Tail(segments), value)
                    IN IF below.raised THEN below
                       ELSE Returned(Dict(Put(current.items, seg.name,
                                               List([lst EXCEPT ![pos] = below.value]))))

\* optimizer_strategy._apply_path_override from the node current on, for
\* any path: a missing or non-list key under an index raises KeyError, an
\* index out of range IndexError, a non-integer index ValueError, and a
\* subscript or a membership test on a node that does not support it
\* TypeError
RECURSIVE PathOverride(_, _, _)
PathOverride(current, parts, value) ==
    LET raw == Head(parts)
        is_last == Len(parts) = 1
    IN IF raw.form = "badindex" THEN Raised("ValueError")
       ELSE IF raw.form = "index"
       THEN IF current.kind = "val" THEN Raised("TypeError")
            ELSE IF current.kind = "list" THEN Raised("KeyError")
            ELSE IF ~Has(current.items, raw.name) \/ current.items[raw.name].kind # "list"
            THEN Raised("KeyError")
            ELSE LET lst == current.items[raw.name].elems
                 IN IF raw.idx < 0 \/ raw.idx >= Len(lst) THEN Raised("IndexError")
                    ELSE IF is_last
                    THEN Returned(Dict(Put(current.items, raw.name,
                                            List([lst EXCEPT ![raw.idx + 1] = value]))))
                    ELSE LET below == PathOverride(lst[raw.idx + 1], Tail(parts), value)
                         IN IF below.raised THEN below
                            ELSE Returned(Dict(Put(current.items, raw.name,
                                                    List([lst EXCEPT ![raw.idx + 1] = below.value]))))
       ELSE IF current.kind # "dict" THEN Raised("TypeError")
       ELSE IF is_last THEN Returned(Dict(Put(current.items, raw.name, value)))
       ELSE LET child == IF Has(current.items, raw.name)
                            /\ current.items[raw.name].kind \in {"dict", "list"}
                         THEN current.items[raw.name]
                         ELSE Dict(EmptyItems)
                below == PathOverride(child, Tail(parts), value)
            IN IF below.raised THEN below
               ELSE Returned(Dict(Put(current.items, raw.name, below.value)))

\* json.loads(json.dumps(obj)) and copy.deepcopy(obj) on a tree of string
\* keyed dicts, lists and numbers: every node is built anew; shared tells
\* whether the copy is the object it was made from
RECURSIVE Rebuilt(_)
Rebuilt(node) ==
    IF node.kind = "dict"
    THEN Dict([k \in DOMAIN node.items |-> Rebuilt(node.items[k])])
    ELSE IF node.kind = "list"
    THEN List([n \in DOMAIN node.elems |-> Rebuilt(node.elems[n])])
    ELSE Val(node.v)

deepcopy(obj) == [obj |-> Rebuilt(obj), shared |-> FALSE]

\* the loop over overrides.items() with the function apply for one path;
\* the first exception ends it
RECURSIVE OverrideLoop(_, _, _)
OverrideLoop(impl_, target, overrides) ==
    IF overrides = <<>> THEN Returned(target)
    ELSE LET applied == IF impl_ = "mapped_router"
                        THEN _apply_single_override(target, Head(overrides).path, Head(overrides).value)
                        ELSE PathOverride(target, Head(overrides).path, Head(overrides).value)
         IN IF applied.raised THEN applied
            ELSE OverrideLoop(impl_, applied.value, Tail(overrides))

\* apply_overrides_to_strategy: the outcome and the base object afterwards
apply_overrides_to_strategy(base_strategy, overrides) ==
    LET result == deepcopy(base_strategy)
        out == OverrideLoop("mapped_router", result.obj, overrides)
    IN [out |-> out, shared |-> result.shared,
        base |-> IF result.shared /\ ~out.raised THEN out.value ELSE base_strategy]

\* _apply_strategy_overrides on trees: the outcome and the base object
\* afterwards
StrategyOverrides(base_strategy, overrides) ==
    LET new_cfg == deepcopy(base_strategy)
        out == OverrideLoop("optimizer", new_cfg.obj, overrides)
    IN [out |-> out, shared |-> new_cfg.shared,
        base |-> IF new_cfg.shared /\ ~out.raised THEN out.value ELSE base_strategy]

\* the two functions that apply overrides
OverrideFunctions == {"apply_overrides_to_strategy", "_apply_strategy_overrides"}

\* a call of one of the two functions
OverrideInit ==
    /\ EngineIdle
    /\ ClassifierIdle
    /\ SweepIdle
    /\ \E f \in OverrideFunctions, b \in BaseConfigs, o \in OverrideDicts :
         call = [pc |-> "overrides", function |-> f, base_strategy |-> b, overrides |-> o]

OverrideReturn ==
    /\ call.pc = "overrides"
    /\ LET r == IF call.function = "apply_overrides_to_strategy"
                THEN apply_overrides_to_strategy(call.base_strategy, call.overrides)
                ELSE StrategyOverrides(call.base_strategy, call.overrides)
       IN call' = [pc |-> "overridden", function |-> call.function,
                   base_strategy |-> call.base_strategy, overrides |-> call.overrides,
                   out |-> r.out, shared |-> r.shared, base_after |-> r.base]
    /\ UNCHANGED <<engine_vars, classifier_vars, sweep_vars>>

OverrideNext == OverrideReturn

SpecOverride == OverrideInit /\ [][OverrideNext]_vars

----------------------------------------------------------------------------
(* Strategy inheritance: core/strategy_loader.py _resolve_inheritance *)

\* keys of raw_strategies: the lower-cased file stems
StrategyFiles == {"a", "b", "c"}

\* values of "extends": no such file, an empty string, keys, and a key in
\* upper case
ExtendsValues == {"", "a", "B", "c", "missing"}

\* str(base_key).lower() on the values above
LowerKey(base_key) == IF base_key = "B" THEN "b" ELSE base_key

\* the JSON object of the file of key name: its own "entry" block, with or
\* without an "exit" block and an "extends" entry
Blocks(name) == IF name = "a" THEN [entry |-> 1, exit |-> 11]
                ELSE IF name = "b" THEN [entry |-> 2, exit |-> 12]
                ELSE [entry |-> 3, exit |-> 13]

WithoutKey(d, k) == [x \in (DOMAIN d) \ {k} |-> d[x]]

FileObjects(name) ==
    LET plain == {Blocks(name), WithoutKey(Blocks(name), "exit")}
    IN plain \cup { Put(d, "extends", e) : d \in plain, e \in ExtendsValues }

RawStrategies == { raw \in [StrategyFiles -> UNION {FileObjects(n) : n \in StrategyFiles}] :
                     \A n \in StrategyFiles : raw[n] \in FileObjects(n) }

\* mutant: keys of the base win over keys of the child
Update_keep(base_copy, child_copy) ==
    [k \in (DOMAIN base_copy) \cup (DOMAIN child_copy) |->
        IF k \in DOMAIN base_copy THEN base_copy[k] ELSE child_copy[k]]

\* base_copy.update(child_copy)
Update(base_copy, child_copy) ==
    [k \in (DOMAIN base_copy) \cup (DOMAIN child_copy) |->
        IF k \in DOMAIN child_copy THEN child_copy[k] ELSE base_copy[k]]

\* data.get("extends") is truthy
Extends(data) == Has(data, "extends") /\ data.extends # ""

\* the call _resolve_inheritance(raw_strategies): todo are the keys the for
\* loop has not reached, stack the resolve() frames, innermost last
InheritInit ==
    /\ EngineIdle
    /\ ClassifierIdle
    /\ SweepIdle
    /\ \E raw \in RawStrategies :
         call = [pc |-> "resolving", raw_strategies |-> raw, todo |-> StrategyFiles,
                 stack |-> <<>>, visiting |-> {}, resolved |-> <<>>, returned |-> <<>>]

\* for key in raw_strategies.keys(): resolve(key), in the order of the dict
InheritLoop ==
    /\ call.pc = "resolving"
    /\ call.stack = <<>>
    /\ call.todo # {}
    /\ \E key \in call.todo :
         call' = [call EXCEPT !.todo = @ \ {key},
                              !.stack = <<[name |-> key, at |-> "enter"]>>]
    /\ UNCHANGED <<engine_vars, classifier_vars, sweep_vars>>

\* resolve(name) up to its recursive call or, without one, to its return
InheritEnter ==
    /\ call.pc = "resolving"
    /\ call.stack # <<>>
    /\ LET frame == call.stack[Len(call.stack)]
           name == frame.name
           outer == SubSeq(call.stack, 1, Len(call.stack) - 1)
       IN /\ frame.at = "enter"
          /\ IF Has(call.resolved, name)
             THEN call' = [call EXCEPT !.stack = outer, !.returned = call.resolved[name]]
             ELSE IF name \notin DOMAIN call.raw_strategies
             THEN call' = [call EXCEPT !.pc = "raised", !.returned = [exc |-> "ValueError", why |-> "no file"]]
             ELSE IF name \in call.visiting
             THEN call' = [call EXCEPT !.pc = "raised", !.returned = [exc |-> "ValueError", why |-> "cycle"]]
             ELSE LET data == call.raw_strategies[name]
                  IN IF Extends(data)
                     THEN call' = [call EXCEPT
                                     !.visiting = @ \cup {name},
                                     !.stack = Append(Append(outer, [name |-> name, at |-> "base"]),
                                                      [name |-> LowerKey(data.extends), at |-> "enter"])]
                     ELSE call' = [call EXCEPT
                                     !.resolved = Put(@, name, data),
                                     !.stack = outer,
                                     !.returned = data]
    /\ UNCHANGED <<engine_vars, classifier_vars, sweep_vars>>

\* resolve(name) from the return of resolve(base_key_lower) on
InheritMerge ==
    /\ call.pc = "resolving"
    /\ call.stack # <<>>
    /\ LET frame == call.stack[Len(call.stack)]
           name == frame.name
           base_copy == call.returned
           child_copy == WithoutKey(call.raw_strategies[name], "extends")
           merged == Update(base_copy, child_copy)
       IN /\ frame.at = "base"
          /\ call' = [call EXCEPT
                        !.resolved = Put(@, name, merged),
                        !.visiting = @ \ {name},
                        !.stack = SubSeq(call.stack, 1, Len(call.stack) - 1),
                        !.returned = merged]
    /\ UNCHANGED <<engine_vars, classifier_vars, sweep_vars>>

\* return resolved
InheritReturn ==
    /\ call.pc = "resolving"
    /\ call.stack = <<>>
    /\ call.todo = {}
    /\ call' = [call EXCEPT !.pc = "returned", !.returned = call.resolved]
    /\ UNCHANGED <<engine_vars, classifier_vars, sweep_vars>>

InheritNext == InheritLoop \/ InheritEnter \/ InheritMerge \/ InheritReturn

SpecInherit == InheritInit /\ [][InheritNext]_vars

\* the interpreter runs every call that is not finished
SpecInheritLive == SpecInherit /\ WF_vars(InheritNext)

----------------------------------------------------------------------------
(* Mapping sets: core/mapped_router.py MappingIndex, routed through *)
(* core/regime_router.py                                             *)

\* most entries in the "mappings" list of a mapping set
MaxMappings == 2

MappingAssets == {"BTCUSDT", "ETHUSDT"}

\* regime names of the entries: default-style ones, one with blanks around
\* it, an explicit one, and an empty one
MappingRegimes == {"balanced", "default", " all ", "trending_up", ""}

\* strategy_id of an entry: a registry key, an empty string, or no string
MappingStrategyIds == {"trend_macd", "range_rsi_bb", "", NoneVal}

\* str(x).strip() on the names above
Strip(x) == IF x = " all " THEN "all" ELSE x

MappingEntries ==
    [asset : MappingAssets, timeframe : {"1h"}, regime : MappingRegimes, strategy_id : MappingStrategyIds]

MappingSets == UNION { [1..n -> MappingEntries] : n \in 0..MaxMappings }

\* MappingIndex._build_index: later entries replace earlier ones of the same
\* key; entries with an empty asset, timeframe or regime are skipped
RECURSIVE _build_index(_)
_build_index(mappings) ==
    IF mappings = <<>> THEN <<>>
    ELSE LET entry == mappings[Len(mappings)]
             before == _build_index(SubSeq(mappings, 1, Len(mappings) - 1))
             key == <<Strip(entry.asset), Strip(entry.timeframe), Strip(entry.regime)>>
         IN IF key[1] = "" \/ key[2] = "" \/ key[3] = "" THEN before
            ELSE Put(before, key, entry)

\* mutant: a single default-style entry is returned as it is
build_regime_strategy_map_raw(index, asset, timeframe) ==
    LET keys == { k \in DOMAIN index : k[1] = asset /\ k[2] = timeframe
                                        /\ index[k].strategy_id # NoneVal }
    IN [r \in { k[3] : k \in keys } |-> index[<<asset, timeframe, r>>].strategy_id]

\* MappingIndex.build_regime_strategy_map
build_regime_strategy_map(index, asset, timeframe) ==
    LET keys == { k \in DOMAIN index : k[1] = asset /\ k[2] = timeframe
                                        /\ index[k].strategy_id # NoneVal }
        raw == [r \in { k[3] : k \in keys } |-> index[<<asset, timeframe, r>>].strategy_id]
        non_default == { r \in DOMAIN raw : r \notin {"balanced", "default", "all"} }
    IN IF DOMAIN raw = {} THEN raw
       ELSE IF Cardinality(DOMAIN raw) > 1 \/ non_default # {} THEN raw
       ELSE LET sid == raw[CHOOSE r \in DOMAIN raw : TRUE]
            IN [r \in {"balanced", "trending_up", "trending_down", "ranging"} |-> sid]

\* MappingIndex(mapping_set), then the table of one asset and timeframe
MappingInit ==
    /\ EngineIdle
    /\ ClassifierIdle
    /\ SweepIdle
    /\ \E m \in MappingSets, a \in MappingAssets :
         call = [pc |-> "mapping", mappings |-> m, asset |-> a, timeframe |-> "1h"]

MappingBuild ==
    /\ call.pc = "mapping"
    /\ call' = [pc |-> "table", mappings |-> call.mappings, asset |-> call.asset,
                timeframe |-> call.timeframe,
                table |-> build_regime_strategy_map(_build_index(call.mappings),
                                                    call.asset, call.timeframe)]
    /\ UNCHANGED <<engine_vars, classifier_vars, sweep_vars>>

\* get_active_strategy(regime, table) up to the registry lookup, for a
\* regime label of the engine
MappingRoute ==
    /\ call.pc = "table"
    /\ \E g \in Regimes :
         call' = [pc |-> "routed", mappings |-> call.mappings, asset |-> call.asset,
                  timeframe |-> call.timeframe, table |-> call.table, regime |-> g,
                  raised |-> RouterRaises(g, Mappings(call.table)),
                  strategy_name |-> MappedName(g, Mappings(call.table))]
    /\ UNCHANGED <<engine_vars, classifier_vars, sweep_vars>>

MappingNext == MappingBuild \/ MappingRoute

SpecMapping == MappingInit /\ [][MappingNext]_vars

----------------------------------------------------------------------------
(* Watermarks of an open position: core/state.py, core/engine.py, and the *)
(* excursions of its trade record, core/exits.py                           *)

\* most candles seen by a position after its entry candle
MaxWatermarkBars == 2

\* high and low of a candle
WatermarkCandles == { c \in [high : Closes, low : Closes] : c.low <= c.high }

\* trailing percentage of the tracked position: 5%
WatermarkTrailingPct == 500

\* state after maybe_open_position at price 100 with a 10% stop and trailing
\* on, long or short
WatermarkOpened(is_long) ==
    [ init_backtest_state(STARTING_CAPITAL) EXCEPT
        !.position = IF is_long THEN 5000 ELSE -5000,
        !.entry_price = 100,
        !.entry_ts = 1,
        !.entry_regime = STRATEGY_RANGING,
        !.stop_price = IF is_long THEN 100 * (Scale - 1000) ELSE 100 * (Scale + 1000),
        !.entry_stop_price = IF is_long THEN 100 * (Scale - 1000) ELSE 100 * (Scale + 1000),
        !.high_water = 100,
        !.low_water = 100,
        !.trailing_active = TRUE ]

WatermarkInit ==
    /\ EngineIdle
    /\ ClassifierIdle
    /\ SweepIdle
    /\ \E m \in {"engine", "modular"}, is_long \in BOOLEAN :
         call = [pc |-> "tracking", impl |-> m, state |-> WatermarkOpened(is_long),
                 highs |-> <<>>, lows |-> <<>>]

\* a later candle on which no exit fires: position tracking, then the
\* trailing step of the exit checks
WatermarkBar ==
    /\ call.pc = "tracking"
    /\ Len(call.highs) < MaxWatermarkBars
    /\ \E c \in WatermarkCandles :
         LET tracked == IF call.impl = "engine"
                        THEN EnginePositionTracking(call.state, c.high, c.low)
                        ELSE update_position_tracking_for_bar(call.state, c.high, c.low)
             trailed == [tracked EXCEPT !.stop_price =
                            TrailingStop(tracked.position > 0, tracked.stop_price,
                                         tracked.high_water, tracked.low_water,
                                         WatermarkTrailingPct)]
         IN call' = [call EXCEPT !.state = trailed,
                                 !.highs = Append(@, c.high),
                                 !.lows = Append(@, c.low)]
    /\ UNCHANGED <<engine_vars, classifier_vars, sweep_vars>>

\* the close of the position at its entry price: the trade record
WatermarkClose ==
    /\ call.pc = "tracking"
    /\ call' = [call EXCEPT
                  !.pc = "closed",
                  !.state = BookClose(call.state, WithTs(Candle(100, "none", 50, STRATEGY_RANGING), 9),
                                      100, Abs(call.state.position), call.state.position > 0,
                                      "end_of_simulation", "short_rsi", FEE_PCT)]
    /\ UNCHANGED <<engine_vars, classifier_vars, sweep_vars>>

WatermarkNext == WatermarkBar \/ WatermarkClose

SpecWatermark == WatermarkInit /\ [][WatermarkNext]_vars

----------------------------------------------------------------------------
(* The hysteresis pass on a truncated input: core/backtest_runner.py     *)
(* _load_dataframe keeps the last rows with their row labels, and        *)
(* core/indicators.py reads rows by position and writes them by label    *)

\* number of candles of the truncated series
MaxTailCandles == 6

\* largest label of the first row kept by df.tail(max_candles)
MaxOffset == 2

\* df.loc[first:last, col] = True on a frame whose row labels start at
\* offset: the rows whose label lies in the closed range
SetFlagAt(frame, offset, first, last, col) ==
    [ k \in 1..Len(frame) |->
        IF first <= offset + k - 1 /\ offset + k - 1 <= last
        THEN [frame[k] EXCEPT ![col] = TRUE]
        ELSE frame[k] ]

\* the pass on the same candles twice: plain is the frame labelled from 0,
\* tail the frame labelled from offset
TailInit ==
    /\ EngineIdle
    /\ ClassifierIdle
    /\ SweepIdle
    /\ \E offset \in 0..MaxOffset :
         call = [pc |-> "loop", offset |-> offset, plain |-> <<>>, tail |-> <<>>,
                 i |-> 0, current_regime |-> NoneVal, regime_start |-> 0]

\* one iteration of the loop, on the row at position call.i
TailStep ==
    /\ call.pc = "loop"
    /\ call.i < MaxTailCandles
    /\ \E new_regime \in Regimes :
         LET read_plain == Append(call.plain, NewRow(new_regime))
             read_tail == Append(call.tail, NewRow(new_regime))
             commit == /\ new_regime # call.current_regime
                       /\ call.current_regime # NoneVal
                       /\ call.i - call.regime_start >= REGIME_MIN_DURATION
         IN call' = [call EXCEPT
                       !.plain = IF commit
                                 THEN SetFlagAt(read_plain, 0, call.regime_start, call.i,
                                                call.current_regime)
                                 ELSE read_plain,
                       !.tail = IF commit
                                THEN SetFlagAt(read_tail, call.offset, call.regime_start, call.i,
                                               call.current_regime)
                                ELSE read_tail,
                       !.i = @ + 1,
                       !.regime_start = IF new_regime # call.current_regime THEN call.i ELSE @,
                       !.current_regime = new_regime]
    /\ UNCHANGED <<engine_vars, classifier_vars, sweep_vars>>

\* after the loop: df.loc[regime_start:, current_regime] = True on a
\* segment that is long enough
TailEnd ==
    /\ call.pc = "loop"
    /\ LET n == Len(call.plain)
           commit == /\ call.current_regime # NoneVal
                     /\ n - call.regime_start >= REGIME_MIN_DURATION
       IN call' = [call EXCEPT
                     !.pc = "done",
                     !.plain = IF commit
                               THEN SetFlagAt(call.plain, 0, call.regime_start, n - 1,
                                              call.current_regime)
                               ELSE @,
                     !.tail = IF commit
                              THEN SetFlagAt(call.tail, call.offset, call.regime_start,
                                             call.offset + n - 1, call.current_regime)
                              ELSE @]
    /\ UNCHANGED <<engine_vars, classifier_vars, sweep_vars>>

TailNext == TailStep \/ TailEnd

SpecTail == TailInit /\ [][TailNext]_vars

----------------------------------------------------------------------------
(* Properties *)

\* records appended to the trade list by the step
NewTrades == SubSeq(state'.trades, Len(state.trades) + 1, Len(state'.trades))

Reasons(recs) == { recs[k].exit_reason : k \in 1..Len(recs) }

\* C1: an entry is made only from the flat state, so a position is never
\* opened while another one is open
C1_EntryOnlyWhenFlat ==
    [][(pc = "entry" /\ (state' # state \/ entry_log' # entry_log))
          => (state.position = 0 /\ Len(entry_log') = Len(entry_log) + 1)]_vars

\* the entry check ran on a candle whose entry conditions hold while a
\* position opened on an earlier candle is open, and it stayed that position
C1_Witness ==
    /\ pc = "exit"
    /\ state.position # 0
    /\ state.entry_ts < row.timestamp
    /\ EntryMet(current_strategy.direction, current_strategy.entry.conditions,
                row, mode_params.adx_threshold)

\* the take-profit percentage the exit check of the candle reads
TpInForce == IF run.impl = "engine" THEN take_profit_pct ELSE state.entry_take_profit_pct

\* the close of the candle has reached the take-profit target of the open
\* position
TpReached ==
    /\ run.impl = "modular" => TpInForce # 0
    /\ \/ state.position > 0 /\ row.close * Scale >= state.entry_price * (Scale + TpInForce)
       \/ state.position < 0 /\ row.close * Scale <= state.entry_price * (Scale - TpInForce)

\* the close of the candle has reached the stop price of the open position
StopReached ==
    \/ state.position > 0 /\ row.close * Scale <= state.stop_price
    \/ state.position < 0 /\ row.close * Scale >= state.stop_price

\* C2: when the take-profit and the stop-loss condition hold on the same
\* candle and no partial fraction is configured, the candle produces exactly
\* one TradeRecord, with reason take_profit; a candle that produces a
\* stop_loss record produces no signal_exit record
C2_ExitOrder ==
    [][pc = "exit" =>
         /\ (state.position # 0 /\ TpReached /\ StopReached /\ cfg.partial_exit_pct <= 0)
               => (Len(NewTrades) = 1 /\ NewTrades[1].exit_reason = "take_profit")
         /\ "stop_loss" \in Reasons(NewTrades) => "signal_exit" \notin Reasons(NewTrades)]_vars

\* a long position was closed in full by take_profit on a candle whose close
\* was also at or below the (ratcheted) stop price
C2_Witness ==
    /\ pc = "loop"
    /\ state.position = 0
    /\ cfg.partial_exit_pct <= 0
    /\ Len(state.trades) > 0
    /\ LET last == state.trades[Len(state.trades)]
       IN /\ last.exit_ts = row.timestamp
          /\ last.exit_reason = "take_profit"
          /\ last.trade_type = "long"
          /\ row.close * Scale <= state.stop_price

LastEntry == entry_log[Len(entry_log)]

C4_PartialKeepsRemainder ==
    [][(pc = "exit" /\ state.position # 0 /\ cfg.partial_exit_pct > 0
          /\ Len(NewTrades) > 0 /\ NewTrades[1].exit_reason = "take_profit") =>
         LET closed == Abs(NewTrades[1].position)
             remainder == IF state.position > 0 THEN state.position - closed
                          ELSE state.position + closed
         IN /\ closed > 0
            /\ Abs(remainder) < Abs(state.position)
            /\ (remainder > 0) = (state.position > 0)
            /\ (remainder < 0) = (state.position < 0)]_vars

C6_StopFromPreviousCandle ==
    [][pc = "exit" =>
         /\ \A k \in 1..Len(NewTrades) :
              NewTrades[k].exit_reason = "stop_loss" =>
                 IF NewTrades[k].trade_type = "long"
                 THEN row.close * Scale <= state.stop_price
                 ELSE row.close * Scale >= state.stop_price
         /\ state'.stop_price # state.stop_price => "stop_loss" \notin Reasons(NewTrades)]_vars

\* a long position survived a candle whose close is at or below the stop
\* price the ratchet of that candle produced
C6_Witness ==
    /\ pc = "loop"
    /\ state.position > 0
    /\ state.trailing_active
    /\ state.stop_price > state.entry_stop_price
    /\ row.close * Scale <= state.stop_price

\* C7: a signal exit closes the whole remaining position and fires, for a
\* long, iff a raw signal-exit condition of the active strategy holds and,
\* for a short, iff an inverted one holds (candles without take-profit and
\* stop-loss)
C7_SignalExitRule ==
    [][(pc = "exit" /\ state.position # 0
          /\ "take_profit" \notin Reasons(NewTrades)
          /\ "stop_loss" \notin Reasons(NewTrades)) =>
         LET fired == "signal_exit" \in Reasons(NewTrades)
             cond == IF state.position > 0
                     THEN AnyHolds(cfg.signal_exit, row, mode_params.adx_threshold)
                     ELSE AnyHolds(InvertAll(cfg.signal_exit), row,
                                   mode_params.adx_threshold)
         IN /\ fired <=> cond
            /\ fired => /\ state'.position = 0
                        /\ Len(NewTrades) = 1
                        /\ NewTrades[1].position = state.position]_vars

\* C8: when flat, direction=long opens a long iff all entry conditions hold,
\* direction=short opens a short iff all inverted entry conditions hold, and
\* direction=both opens iff either set holds, always as a long
C8_EntryRule ==
    [][(pc = "entry" /\ state.position = 0) =>
         LET d == current_strategy.direction
             conds == current_strategy.entry.conditions
             raw == AllHold(conds, row, mode_params.adx_threshold)
             inv == AllHold(InvertAll(conds), row, mode_params.adx_threshold)
             opened == state'.position # 0
         IN /\ d = "long" => (opened <=> raw) /\ (opened => state'.position > 0)
            /\ d = "short" => (opened <=> inv) /\ (opened => state'.position < 0)
            /\ d = "both" => (opened <=> (raw \/ inv)) /\ (opened => state'.position > 0)
            /\ ~opened => state' = state]_vars

\* a direction=both strategy opened a long on a candle where only the
\* inverted entry set holds
C8_Witness ==
    /\ pc = "exit"
    /\ state.position > 0
    /\ state.entry_ts = row.timestamp
    /\ current_strategy.direction = "both"
    /\ ~AllHold(current_strategy.entry.conditions, row, mode_params.adx_threshold)
    /\ AllHold(InvertAll(current_strategy.entry.conditions), row, mode_params.adx_threshold)

\* C9: a position still open after the last candle is closed in full at that
\* candle's close with reason end_of_simulation and that candle's timestamp;
\* a completed run is flat; end_of_simulation occurs at most once, as the
\* last TradeRecord of a completed run
C9_EndOfSimulation ==
    /\ [][(pc = "loop" /\ pc' = "done") =>
            /\ state'.position = 0
            /\ state.position = 0 => state'.trades = state.trades
            /\ state.position # 0 =>
                 /\ Len(NewTrades) = 1
                 /\ NewTrades[1].exit_reason = "end_of_simulation"
                 /\ NewTrades[1].exit_ts = row.timestamp
                 /\ NewTrades[1].exit_price = row.close
                 /\ NewTrades[1].position = state.position]_vars
    /\ [](pc = "done" => state.position = 0)
    /\ [](\A k \in 1..Len(state.trades) :
             state.trades[k].exit_reason = "end_of_simulation"
                => (k = Len(state.trades) /\ pc = "done"))

\* a run that ended in the middle of a trade
C9_Witness ==
    /\ pc = "done"
    /\ i >= 2
    /\ Len(state.trades) > 0
    /\ state.trades[Len(state.trades)].exit_reason = "end_of_simulation"
    /\ state.trades[Len(state.trades)].entry_ts < row.timestamp

\* C10: at every point of a run the capital trajectory has one entry for
\* the start, one per position entry and one per TradeRecord
C10_TrajectoryLength ==
    pc \in {"loop", "router", "track", "entry", "exit", "done"} =>
        Len(state.equity) = 1 + Len(entry_log) + Len(state.trades)

\* a trajectory that has grown by two entries, a partial and a full close
C10_Witness ==
    /\ pc = "done"
    /\ Len(entry_log) >= 2
    /\ Len(state.trades) >= 3
    /\ Len(state.equity) = 6

RECURSIVE SumPnl(_)
\* sum of the pnl fields of a sequence of TradeRecords
SumPnl(recs) == IF recs = <<>> THEN 0 ELSE recs[1].pnl + SumPnl(Tail(recs))

\* what a close of the record's size at the record's prices is worth: the
\* directional price difference times the size, minus 0.1% of size x close
ClosePnl(t) ==
    LET size == Abs(t.position)
        diff == IF t.trade_type = "long" THEN t.exit_price - t.entry_price
                ELSE t.entry_price - t.exit_price
    IN diff * size - (size * t.exit_price) \div 1000

\* C11: an entry leaves capital unchanged and appends a trajectory entry
\* equal to the previous one; every close changes capital by the directional
\* price difference times the closed size minus 0.1% of closed size x price
C11_CapitalFrame ==
    [][/\ (pc = "entry" /\ entry_log' # entry_log) =>
             /\ state'.capital = state.capital
             /\ state'.equity = Append(state.equity, state.equity[Len(state.equity)])
       /\ (pc \in {"exit", "loop"} /\ Len(state.equity) > 0) =>
             /\ \A k \in 1..Len(NewTrades) : NewTrades[k].pnl = ClosePnl(NewTrades[k])
             /\ state'.capital = state.capital + SumPnl(NewTrades)]_vars

\* a position was opened and closed at its entry price: the capital lost the
\* fee of the closing leg and nothing else
C11_Witness ==
    /\ pc = "loop"
    /\ Len(state.trades) = 1
    /\ state.trades[1].exit_price = state.trades[1].entry_price
    /\ state.trades[1].pnl < 0
    /\ state.capital = STARTING_CAPITAL + state.trades[1].pnl
    /\ state.equity = <<STARTING_CAPITAL, STARTING_CAPITAL, state.capital>>

\* the three per-regime pnl buckets added up
BucketTotal(s) ==
    s.regime_pnl[STRATEGY_TRENDING_UP] + s.regime_pnl[STRATEGY_TRENDING_DOWN]
        + s.regime_pnl[STRATEGY_RANGING]

\* C12: every close adds its pnl to the bucket of the regime recorded at the
\* entry of the position; capital = starting capital + sum of the TradeRecord
\* pnl = starting capital + sum of the three buckets at every point; a run
\* without trades ends with the starting capital as final equity
C12_RegimeBuckets ==
    /\ [][/\ (pc = "entry" /\ entry_log' # entry_log) =>
                state'.entry_regime = CurrentRegime(row)
          /\ (pc \in {"exit", "loop"} /\ Len(state.equity) > 0) =>
                \A g \in Regimes :
                   state'.regime_pnl[g] =
                      state.regime_pnl[g]
                        + (IF g = state.entry_regime THEN SumPnl(NewTrades) ELSE 0)]_vars
    /\ [](Len(state.equity) > 0 =>
             /\ state.capital = STARTING_CAPITAL + SumPnl(state.trades)
             /\ state.capital = STARTING_CAPITAL + BucketTotal(state)
             /\ (pc = "done" /\ state.trades = <<>>) =>
                   state.equity[Len(state.equity)] = STARTING_CAPITAL)

\* a position entered in one regime was closed on a candle of another regime
\* and its pnl sits in the bucket of the entry regime
C12_Witness ==
    /\ pc = "loop"
    /\ Len(state.trades) = 1
    /\ state.trades[1].exit_ts = row.timestamp
    /\ state.trades[1].regime # CurrentRegime(row)
    /\ state.trades[1].pnl # 0
    /\ state.regime_pnl[state.trades[1].regime] = state.trades[1].pnl
    /\ state.regime_pnl[CurrentRegime(row)] = 0

\* the label sequence has no maximal run of label g shorter than
\* REGIME_MIN_DURATION
RunsLongEnough(label, n, g) ==
    \A a \in 1..n : \A b \in a..n :
        ( /\ \A k \in a..b : label[k] = g
          /\ a = 1 \/ label[a - 1] # g
          /\ b = n \/ label[b + 1] # g )
        => b - a + 1 >= REGIME_MIN_DURATION

\* the label of each row as the regime column gives it
ColumnLabels == [k \in 1..Len(df) |-> df[k].regime]

\* the label of each row as the run loop derives it from the flags
FlagLabels == [k \in 1..Len(df) |-> CurrentRegime(df[k])]

\* C13: in the classifier's output every maximal run of trending_up and of
\* trending_down labels is at least 5 candles long, read from the regime
\* column or derived from the flags
C13_TrendingRunsMinLength ==
    hyst.pc = "done" =>
        \A g \in {STRATEGY_TRENDING_UP, STRATEGY_TRENDING_DOWN} :
            /\ RunsLongEnough(ColumnLabels, Len(df), g)
            /\ RunsLongEnough(FlagLabels, Len(df), g)

\* length of the contiguous raw segment row k belongs to
RawSegmentLength(k) ==
    LET same(a, b) == \A j \in a..b : df[j].raw = df[k].raw
        first == CHOOSE a \in 1..k : same(a, k) /\ (a = 1 \/ df[a - 1].raw # df[k].raw)
        last == CHOOSE b \in k..Len(df) :
                    same(k, b) /\ (b = Len(df) \/ df[b + 1].raw # df[k].raw)
    IN last - first + 1

\* C14: every candle of a raw segment shorter than 5 candles is labelled
\* ranging and carries neither trending flag
C14_ShortSegmentsRanging ==
    hyst.pc = "done" =>
        \A k \in 1..Len(df) :
            RawSegmentLength(k) < REGIME_MIN_DURATION =>
                /\ ~df[k].trending_up
                /\ ~df[k].trending_down
                /\ df[k].regime = STRATEGY_RANGING

\* C15: in router mode a regime without entry in the supplied table makes the
\* resolution raise: the run stops there without result and no strategy is
\* substituted; the default table serves only when no table is supplied
C15_RouterFailsFast ==
    /\ [][(run.use_router /\ pc \in {"start", "router"} /\ pc' # "nodata") =>
            LET regime == CurrentRegime(row')
                supplied == run.strategy_mappings.given
                table == IF supplied THEN run.strategy_mappings.table
                         ELSE DEFAULT_REGIME_TO_STRATEGY
            IN IF regime \in DOMAIN table
               THEN /\ pc' # "raised"
                    /\ current_strategy' = _STRATEGIES[table[regime]]
               ELSE /\ pc' = "raised"
                    /\ UNCHANGED <<current_strategy, cfg, state, entry_log>>]_vars
    /\ [][pc # "raised"]_vars

\* a run with a supplied table stopped in the middle of the series on a
\* regime the table lacks and the default table has
C15_Witness ==
    /\ pc = "raised"
    /\ i >= 1
    /\ run.strategy_mappings.given
    /\ CurrentRegime(row) \notin DOMAIN run.strategy_mappings.table
    /\ CurrentRegime(row) \in DOMAIN DEFAULT_REGIME_TO_STRATEGY
    /\ current_strategy # NoStrategy

\* the sweeps that got as far as the loop
Called(s) == sweeps[s].pc \in {"loop", "run", "returned"}

\* the configuration sweep s injected for a row of its table
OwnOverride(s, r) == _apply_strategy_overrides(sweeps[s].original_strategy, r.overrides).value

\* the configurations sweep t injects
Injected(t) == { _apply_strategy_overrides(sweeps[t].original_strategy, sweeps[t].overrides_list[k]).value : k \in { n \in DOMAIN sweeps[t].overrides_list : ~_apply_strategy_overrides(sweeps[t].original_strategy, sweeps[t].overrides_list[n]).raised } }

\* a run of sweep s read a configuration injected by another sweep, not its own
ReadForeign(s) == \E n \in DOMAIN sweeps[s].rows : \E t \in SweepIds \ {s} : /\ Called(t) /\ sweeps[s].rows[n].read \in Injected(t) /\ sweeps[s].rows[n].read # OwnOverride(s, sweeps[s].rows[n])

C17_SweepRestoresRegistry ==
    [][\A s \in SweepIds :
          /\ sweeps[s].pc = "loop"
          /\ sweeps'[s].pc = "returned"
          /\ sweeps[s].alone
          => /\ DOMAIN registry' = DOMAIN sweeps[s].before
             /\ registry' = sweeps[s].before]_vars

\* sweep s, if called at all, overlapped no other sweep
NonOverlapping(s) == Has(sweeps[s], "alone") => sweeps[s].alone

\* C18: a run's result is decided by the candles, the parameters and the
\* configuration it reads under its strategy name; with sweeps that do not
\* overlap each other or the runs, any two runs under the same name read the
\* same configuration, so their results are identical.
C18_RunsDeterministic ==
    (\A s \in SweepIds : NonOverlapping(s)) =>
        \A p, q \in probes : p.strategy_name = q.strategy_name => p.config = q.config

C20_SizingRules ==
    call.pc = "returned" =>
        LET a == call.args
            res == call.result
            notional == MulFrac(a.capital, a.position_frac)
            risk_stop == (a.risk_per_trade_frac * Scale) \div a.position_frac - a.fee_pct
        IN /\ a.sizing = "equity_pct" /\ notional > 0 =>
                /\ a.price > 0 => res.position_size = notional \div a.price
                /\ risk_stop > 0 => res.stop_loss_pct = risk_stop
                /\ risk_stop <= 0 => res.stop_loss_pct = a.stop_loss_pct_cfg
           /\ a.sizing # "equity_pct" =>
                /\ a.price > 0 => res.position_size = a.max_exposure_usd \div a.price
                /\ res.stop_loss_pct = a.stop_loss_pct_cfg
           /\ res.take_profit_pct = MulFrac(res.stop_loss_pct, a.fixed_rr)

\* an equity_pct call with a positive notional whose stop comes from the
\* risk budget
C20_Witness ==
    /\ call.pc = "returned"
    /\ call.args.sizing = "equity_pct"
    /\ call.args.price > 0
    /\ MulFrac(call.args.capital, call.args.position_frac) > 0
    /\ call.result.position_size > 0
    /\ call.result.stop_loss_pct # call.args.stop_loss_pct_cfg
    /\ call.result.stop_loss_pct + call.args.fee_pct = (call.args.risk_per_trade_frac * Scale) \div call.args.position_frac

\* C21: under equity_pct sizing with a stop percentage derived from the
\* risk budget, a position closed by the stop-loss at a close equal to its
\* stop price takes riskFraction times the capital at entry off the capital,
\* whatever the position fraction is (to within the two units that the
\* truncations of the arithmetic can lose).
C21_StopOutLosesRiskFraction ==
    /\ call.pc = "closed"
    /\ call.sized.stop_loss_pct # StrategyLocals(_STRATEGIES.short_rsi).stop_loss_pct_cfg
    /\ Len(call.state.trades) = 1
    /\ call.state.trades[1].exit_reason = "stop_loss"
    => Abs((call.args.capital - call.state.capital) - MulFrac(call.args.capital, get_mode_params(call.args.mode).risk_per_trade_frac)) <= 2

C23_AtrZeroUsesFloor ==
    /\ call.pc = "open"
    /\ call.args.sizing = "atr"
    /\ call.row.atr = 0
    /\ call.args.price > 0
    => /\ Abs(call.state.entry_price * Scale - call.state.stop_price) = call.state.entry_price * 50
       /\ call.state.position # 0

\* C24: inverting twice gives back the condition, for every condition of a
\* type that has a mirror; a condition of any other type is returned by
\* invert as it is.
C24_InvertRoundTrip ==
    /\ call.pc = "back" /\ call.cond.type \in InvertibleTypes => call.back = call.cond
    /\ call.pc \in {"inverted", "back"} /\ call.cond.type \in PlainTypes => call.inv = call.cond

\* the candles counted so far, over the three regimes
CountedCandles == state.regime_counts[STRATEGY_TRENDING_UP] + state.regime_counts[STRATEGY_TRENDING_DOWN] + state.regime_counts[STRATEGY_RANGING]

\* C25: the three per-regime candle counts sum to the number of candles the
\* loop has processed, at every point of the run and so at its end; the step
\* that takes a candle adds one to the count of that candle's regime and to
\* no other, and no other step changes a count.
C25_RegimeCountsSum ==
    /\ [](CountedCandles = i)
    /\ [][IF i' = i + 1
          THEN state'.regime_counts = [state.regime_counts EXCEPT ![CurrentRegime(row')] = @ + 1]
          ELSE state'.regime_counts = state.regime_counts]_vars

\* a finished run whose candles fell under two regimes
C25_Witness ==
    /\ pc = "done"
    /\ i = MaxBars
    /\ Cardinality({ g \in Regimes : state.regime_counts[g] > 0 }) = 2

\* C26: the reported maximum drawdown is the trajectory's highest value
\* less its lowest value, its percentage is that difference over the highest
\* value times 100, and the percentage lies in [0, 100] whenever every value
\* of the trajectory is positive.
C26_MaxDrawdown ==
    call.pc = "built" /\ call.equity # <<>> =>
        LET eq == call.equity
            n == Len(eq)
        IN /\ \E p, t \in 1..n :
                /\ \A k \in 1..n : eq[t] <= eq[k] /\ eq[k] <= eq[p]
                /\ call.result.max_dd = eq[p] - eq[t]
                /\ eq[p] > 0 => call.result.max_dd_pct = ((eq[p] - eq[t]) * 100) \div eq[p]
           /\ (\A k \in 1..n : eq[k] > 0) =>
                call.result.max_dd_pct >= 0 /\ call.result.max_dd_pct <= 100

\* a positive trajectory that ends above its lowest value
C26_Witness ==
    /\ call.pc = "built"
    /\ Len(call.equity) = 3
    /\ \A k \in 1..3 : call.equity[k] > 0
    /\ call.equity[2] < call.equity[3]
    /\ call.equity[1] > call.equity[3]
    /\ call.result.max_dd_pct > 0

\* C27: every run starts from the fixed starting capital: the first entry
\* of the capital trajectory is STARTING_CAPITAL whatever the candles, the
\* strategy and the parameters are, and the steps of the run only append to
\* the trajectory, so the first entry is never changed.
C27_StartingCapitalFixed ==
    /\ [](Len(state.equity) > 0 => state.equity[1] = STARTING_CAPITAL)
    /\ [][Len(state.equity) > 0 =>
            /\ Len(state'.equity) >= Len(state.equity)
            /\ SubSeq(state'.equity, 1, Len(state.equity)) = state.equity]_vars

\* a finished run whose capital has moved away from the starting capital
C27_Witness ==
    /\ pc = "done"
    /\ Len(state.equity) >= 3
    /\ state.capital # STARTING_CAPITAL
    /\ state.equity[1] = STARTING_CAPITAL

\* C28: a run on an empty candle sequence returns the no-data outcome
\* instead of raising (also when its strategy name or its router mapping
\* could not be resolved), it resolves no strategy, it produces no trade and
\* no capital trajectory, and the outcome is final.
C28_EmptyRunReturnsNoData ==
    /\ [](pc = "nodata" =>
            /\ current_strategy = NoStrategy
            /\ cfg = [sizing |-> NoneVal]
            /\ row = NoRow
            /\ state.trades = <<>>
            /\ state.equity = <<>>
            /\ entry_log = <<>>)
    /\ [][pc = "nodata" => pc' = "nodata"]_vars
    /\ [][pc' = "nodata" => pc \in {"start", "nodata"}]_vars

\* the empty run of a routed configuration whose first regime, had there
\* been a candle, could be one the router has no strategy for
C28_Witness ==
    /\ pc = "nodata"
    /\ run.use_router
    /\ \E g \in Regimes : RouterRaises(g, run.strategy_mappings)

\* the node found by reading a configuration along a path; a node of kind
\* "missing" where the path leads to none
RECURSIVE ReadAt(_, _)
ReadAt(node, segments) ==
    IF segments = <<>> THEN node
    ELSE LET seg == Head(segments)
         IN IF node.kind # "dict" \/ seg.form = "badindex" \/ ~Has(node.items, seg.name)
            THEN [kind |-> "missing"]
            ELSE IF seg.form = "key"
            THEN ReadAt(node.items[seg.name], Tail(segments))
            ELSE IF node.items[seg.name].kind # "list"
                    \/ PyPos(node.items[seg.name].elems, seg.idx) = 0
            THEN [kind |-> "missing"]
            ELSE ReadAt(node.items[seg.name].elems[PyPos(node.items[seg.name].elems, seg.idx)],
                        Tail(segments))

\* C29: applying overrides returns a new configuration with the overrides
\* applied (the path of the last override reads its value; no override
\* leaves a copy equal to the base) and leaves the base configuration
\* unchanged, for every override path and value.
C29_OverridesReturnNewConfig ==
    call.pc = "overridden" =>
        /\ ~call.out.raised
        /\ ~call.shared
        /\ call.base_after = call.base_strategy
        /\ call.overrides = <<>> => call.out.value = call.base_strategy
        /\ call.overrides # <<>> =>
             ReadAt(call.out.value, call.overrides[Len(call.overrides)].path)
                = call.overrides[Len(call.overrides)].value

\* the keys reached from a key by following "extends" at most n times
RECURSIVE BasesOf(_, _, _)
BasesOf(raw, name, n) ==
    IF n = 0 \/ name \notin DOMAIN raw \/ ~Extends(raw[name]) THEN {}
    ELSE {LowerKey(raw[name].extends)} \cup BasesOf(raw, LowerKey(raw[name].extends), n - 1)

AllBases(raw, name) == BasesOf(raw, name, Cardinality(DOMAIN raw))

HasCycle(raw) == \E name \in DOMAIN raw : name \in AllBases(raw, name)

HasMissingBase(raw) == \E name \in DOMAIN raw : AllBases(raw, name) \ DOMAIN raw # {}

\* the resolved strategy of a key whose chain of bases is sound: the
\* resolved base with the child's own top-level keys put over it
RECURSIVE Inherited(_, _)
Inherited(raw, name) ==
    IF ~Extends(raw[name]) THEN raw[name]
    ELSE LET base == Inherited(raw, LowerKey(raw[name].extends))
             own == WithoutKey(raw[name], "extends")
         IN [k \in (DOMAIN base) \cup (DOMAIN own) |-> IF k \in DOMAIN own THEN own[k] ELSE base[k]]

\* C30: resolving "extends" terminates for every set of definitions; a
\* cycle (also a strategy extending itself) and a reference to a missing
\* base raise ValueError; otherwise every key is resolved to its resolved
\* base with the child's top-level keys replacing the base's.
C30_InheritanceResolves ==
    /\ <>(call.pc \in {"returned", "raised"})
    /\ [](call.pc = "raised" =>
            /\ call.returned.exc = "ValueError"
            /\ call.returned.why = "cycle" => HasCycle(call.raw_strategies)
            /\ call.returned.why = "no file" => HasMissingBase(call.raw_strategies))
    /\ [](call.pc = "returned" =>
            /\ ~HasCycle(call.raw_strategies)
            /\ ~HasMissingBase(call.raw_strategies)
            /\ DOMAIN call.returned = DOMAIN call.raw_strategies
            /\ \A name \in DOMAIN call.raw_strategies :
                 call.returned[name] = Inherited(call.raw_strategies, name))

\* a returned resolution of a chain of two bases, in which the child drops
\* the "exit" block and inherits it from a base
C30_Witness ==
    /\ call.pc = "returned"
    /\ \E name \in DOMAIN call.raw_strategies :
         /\ Cardinality(AllBases(call.raw_strategies, name)) = 2
         /\ ~Has(call.raw_strategies[name], "exit")
         /\ Has(call.returned[name], "exit")
         /\ call.returned[name].entry = call.raw_strategies[name].entry

\* the entries of the mapping set that the index keeps for the call's asset
\* and timeframe
DefinedEntries ==
    { n \in 1..Len(call.mappings) :
        /\ Strip(call.mappings[n].asset) = call.asset
        /\ Strip(call.mappings[n].timeframe) = call.timeframe
        /\ Strip(call.mappings[n].regime) # "" }

\* the mapping set defines one regime for the asset and timeframe, a
\* default-style one, and its entry names a strategy
SingleDefaultRegime ==
    /\ DefinedEntries # {}
    /\ \A n \in DefinedEntries :
         /\ Strip(call.mappings[n].regime) \in {"balanced", "default", "all"}
         /\ call.mappings[n].strategy_id \notin {NoneVal, ""}
         /\ \A k \in DefinedEntries :
              Strip(call.mappings[k].regime) = Strip(call.mappings[n].regime)

\* the entry the index keeps for a key is the last one of the list
LastDefined == CHOOSE n \in DefinedEntries : \A k \in DefinedEntries : k <= n

RoutedLocals == StrategyLocals(get_active_strategy(CurrentRegime(row), run.strategy_mappings))

\* C32: in router mode the exit checks of a candle run on the signal-exit
\* list and the trailing percentage of the strategy routed for that
\* candle's regime, whatever strategy the position was opened under, and
\* the trailing-active flag of an open position stays as the entry set it.
C32_ExitRulesOfRoutedStrategy ==
    /\ [][(run.use_router /\ pc = "exit" /\ state.position # 0) =>
            state' = IF run.impl = "engine"
                     THEN EngineExits(state, row, current_strategy, RoutedLocals.signal_exit,
                                      RoutedLocals.trailing_stop_pct, take_profit_pct,
                                      mode_params.adx_threshold, cfg.partial_exit_pct)
                     ELSE handle_exits_for_bar(state, row, current_strategy,
                                      RoutedLocals.signal_exit, RoutedLocals.trailing_stop_pct,
                                      FEE_PCT, mode_params.adx_threshold, cfg.partial_exit_pct)]_vars
    /\ [][(state.position # 0 /\ state'.position # 0) =>
            state'.trailing_active = state.trailing_active]_vars

\* after the exit checks of a later candle a position opened with trailing
\* under one strategy is still open under another strategy, whose trailing
\* percentage is different, and its stop was moved
C32_Witness ==
    /\ run.use_router
    /\ pc = "loop"
    /\ state.position # 0
    /\ entry_log # <<>>
    /\ entry_log[Len(entry_log)].ts < row.timestamp
    /\ entry_log[Len(entry_log)].strategy # current_strategy.name
    /\ entry_log[Len(entry_log)].trailing_stop_pct # cfg.trailing_stop_pct
    /\ state.trailing_active
    /\ state.stop_price # state.entry_stop_price

\* C33: for a position of either direction the high watermark is the
\* maximum of the entry price and every candle high after the entry candle
\* and the low watermark the minimum of the entry price and every candle
\* low after it; every trade record has a favorable excursion >= 0 and an
\* adverse excursion <= 0, and a short's trailing stop is derived from the
\* lowest low since entry.
C33_WatermarksBoundPrices ==
    call.pc \in {"tracking", "closed"} =>
        LET s == call.state
            highest == SeqMax(<<s.entry_price>> \o call.highs)
            lowest == SeqMin(<<s.entry_price>> \o call.lows)
        IN /\ s.high_water = highest
           /\ s.low_water = lowest
           /\ \A k \in 1..Len(s.trades) : s.trades[k].mfe >= 0 /\ s.trades[k].mae <= 0
           /\ (s.trades # <<>> /\ s.trades[1].trade_type = "short" /\ call.lows # <<>>) =>
                s.stop_price = Min(s.entry_stop_price, lowest * (Scale + WatermarkTrailingPct))

\* C34: after the hysteresis pass no candle has both the trending_up and
\* the trending_down flag set, so the regime column and the label the run
\* loop derives from the flags agree on every candle.
C34_FlagsExclusive ==
    hyst.pc = "done" =>
        \A k \in 1..Len(df) :
            /\ ~(df[k].trending_up /\ df[k].trending_down)
            /\ df[k].regime = CurrentRegime(df[k])

\* C35: a take-profit with a partial fraction strictly between 0 and 1
\* never brings the position to flat: on every candle of an open position
\* whose close is at or beyond the target it fires once, closes that
\* fraction of what remains and appends one take_profit record, and the
\* position is ended only by stop_loss, signal_exit or end_of_simulation.
C35_PartialTakeProfitRepeats ==
    /\ [][(pc = "exit" /\ state.position # 0
             /\ cfg.partial_exit_pct > 0 /\ cfg.partial_exit_pct < Scale) =>
            LET fired == { k \in 1..Len(NewTrades) : NewTrades[k].exit_reason = "take_profit" }
            IN /\ TpReached <=> fired = {1}
               /\ ~TpReached => fired = {}
               /\ TpReached =>
                    /\ Abs(NewTrades[1].position) = MulFrac(Abs(state.position), cfg.partial_exit_pct)
                    /\ Abs(NewTrades[1].position) > 0
                    /\ Abs(NewTrades[1].position) < Abs(state.position)
                    /\ state'.position # 0 =>
                         /\ Len(NewTrades) = 1
                         /\ Abs(state'.position) = Abs(state.position) - Abs(NewTrades[1].position)
                         /\ (state'.position > 0) = (state.position > 0)]_vars
    /\ [][(state.position # 0 /\ state'.position = 0
             /\ cfg.partial_exit_pct > 0 /\ cfg.partial_exit_pct < Scale) =>
            /\ Len(NewTrades) > 0
            /\ NewTrades[Len(NewTrades)].exit_reason
                 \in {"stop_loss", "signal_exit", "end_of_simulation"}]_vars

\* a position that two take-profits on two candles have reduced, the second
\* by less than the first, and that is still open
C35_Witness ==
    /\ state.position # 0
    /\ cfg.partial_exit_pct > 0 /\ cfg.partial_exit_pct < Scale
    /\ Len(state.trades) >= 2
    /\ LET a == state.trades[Len(state.trades) - 1]
           b == state.trades[Len(state.trades)]
       IN /\ a.exit_reason = "take_profit" /\ b.exit_reason = "take_profit"
          /\ a.entry_ts = state.entry_ts /\ b.entry_ts = state.entry_ts
          /\ a.exit_ts < b.exit_ts
          /\ Abs(b.position) < Abs(a.position)

\* C36: positions are disjoint in time: the entry check of a candle comes
\* before its exit checks, so the exit checks open nothing and an entry is
\* made only from the flat state on a candle strictly later than every
\* close recorded so far; trades of different positions do not overlap.
C36_PositionsDisjoint ==
    /\ [][pc = "exit" =>
            /\ entry_log' = entry_log
            /\ state.position = 0 => state'.position = 0]_vars
    /\ [][Len(entry_log') > Len(entry_log) =>
            /\ pc = "entry"
            /\ state.position = 0
            /\ state'.entry_ts = row.timestamp
            /\ \A k \in 1..Len(state.trades) : state.trades[k].exit_ts < row.timestamp]_vars
    /\ [](\A j, k \in 1..Len(state.trades) :
            state.trades[j].entry_ts < state.trades[k].entry_ts =>
                state.trades[j].exit_ts < state.trades[k].entry_ts)

\* a second position opened on the candle after the one that closed the
\* first, and closed in turn
C36_Witness ==
    /\ Len(entry_log) = 2
    /\ Len(state.trades) >= 2
    /\ state.trades[1].entry_ts = entry_log[1].ts
    /\ state.trades[Len(state.trades)].entry_ts = entry_log[2].ts
    /\ state.trades[1].exit_ts + 1 = entry_log[2].ts
    /\ state.trades[1].entry_ts = state.trades[1].exit_ts

\* C37: every trade record carries the name of the strategy under which
\* its position was opened, also in router mode when the routed strategy
\* changed between the entry candle and the exit candle.
C37_TradeNamesEntryStrategy ==
    \A k \in 1..Len(state.trades) :
        \E n \in 1..Len(entry_log) :
            /\ entry_log[n].ts = state.trades[k].entry_ts
            /\ entry_log[n].strategy = state.trades[k].strategy

\* C38: the hysteresis pass assigns the same regime flags to a candle
\* sequence whether its row labels start at 0 or at a positive offset, and
\* the rows it marks with a regime are rows whose raw classification is
\* that regime.
C38_FlagsIndependentOfOffset ==
    call.pc = "done" =>
        /\ call.tail = call.plain
        /\ \A k \in 1..Len(call.tail) :
             /\ call.tail[k].trending_up => call.tail[k].raw = STRATEGY_TRENDING_UP
             /\ call.tail[k].trending_down => call.tail[k].raw = STRATEGY_TRENDING_DOWN
             /\ call.tail[k].ranging => call.tail[k].raw = STRATEGY_RANGING

====
